---- MODULE Spec2Model ----
(***************************************************************************)
(* State-machine model of the graysonfinance-server core: the identity     *)
(* reconciler (Clerk webhook + lazy provisioning), the conversation store, *)
(* the message store and the authenticated turn.  Every `await` of a       *)
(* handler is one atomic step of the request that executes it; requests    *)
(* interleave between steps.  The backing store is PostgreSQL accessed     *)
(* through Prisma: single statements are atomic, unique and foreign-key    *)
(* constraints are enforced by the store, interactive transactions become  *)
(* visible at commit.                                                      *)
(***************************************************************************)
EXTENDS Integers, Sequences, FiniteSets, TLC

\* ------------------------------------------------------------------ bounds
MaxProcs == 2      \* requests in flight at the same time
MaxReqs  == 2      \* requests started in one behaviour of the stores
MaxTurns == 1      \* of these, the leading ones that may be turns (conversation store)
MaxIdReqs == 2     \* deliveries and requests in one behaviour of the identity reconciler
MaxClock == 1      \* distinct readings of the wall clock
MaxLen == 4        \* tokens in a text the external AI service returns

Procs == 1..MaxProcs

\* --------------------------------------------------------------- identifiers
\* Every identifier is a 4-tuple <<kind, n, text, t>> so that identifiers of
\* different origin can be compared (getById compares one parameter with both
\* the primary key and the external session id).
Id(kind, n) == <<kind, n, "", 0>>
NoId == Id("none", 0)

\* external identity-provider ids known to the identity provider
AuthIds == {Id("clerk", 1), Id("clerk", 2)}

\* session ids issued by the external AI service; the service, not this
\* program, fixes their format: some contain the substring 'dify-', some
\* (UUIDs) do not
ExtIds == {Id("dify-", 1), Id("uuid", 1)}

\* `${userId}-${chatType}-${Date.now()}`
Sentinel(userId, chatType, now) == <<"sentinel", userId[2], chatType, now>>

\* String.prototype.includes('dify-') on a stored session id.  Row ids are
\* cuid/uuid values and chat types are topic names, so a sentinel never
\* contains 'dify-'.
IncludesDify(sid) == sid[1] = "dify-"

\* the ChatType enum of the store
ChatTypeEnum == {"INCOME", "DEBT", "EXPENSES", "SAVINGS", "OPEN_CHAT"}

\* String.prototype.toUpperCase on the chat-type strings that reach the store
ToUpperCase(s) ==
  CASE s = "income"   -> "INCOME"
    [] s = "debt"     -> "DEBT"
    [] s = "expenses" -> "EXPENSES"
    [] s = "savings"  -> "SAVINGS"
    [] s = "chat"     -> "CHAT"
    [] OTHER          -> s

\* ------------------------------------------------------------------- rows
NoUser == [id |-> NoId, authId |-> NoId, email |-> "", firstName |-> ""]
NoConv == [id |-> NoId, userId |-> NoId, chatType |-> "", conversationId |-> NoId,
           updatedAt |-> 0]
NoMsg  == [id |-> NoId, conversationId |-> NoId, role |-> "", content |-> <<0, 0>>,
           createdAt |-> 0]

VARIABLES
  users,     \* table users: set of rows
  convs,     \* table conversations: set of rows
  msgs,      \* table messages: set of committed rows
  clock,     \* last wall-clock reading (Date.now / new Date)
  issued,    \* session ids the external AI service has issued so far
  nreq,      \* number of requests started
  pc,        \* per request slot: the await the handler is suspended at
  loc,       \* per request slot: the handler's local variables
  resp,      \* the response the latest step sent, NoResp if it sent none
  hook,      \* the last webhook delivery and its response
  dlog,      \* delete-message outcomes seen by callers: {<<case, response>>}
  difyResponse,  \* response.data of an answer of the external AI service
  normalized     \* what normalizeDifyResponse returned for it

vars == <<users, convs, msgs, clock, issued, nreq, pc, loc, resp, hook, dlog,
          difyResponse, normalized>>

\* ------------------------------------------------------------ store helpers
UserByAuth(us, a) == {u \in us : u.authId = a}
ConvByPair(cs, uid, ct) == {c \in cs : c.userId = uid /\ c.chatType = ct}
ConvByPk(cs, id) == {c \in cs : c.id = id}
MsgsOf(ms, cid) == {m \in ms : m.conversationId = cid}

\* ON DELETE CASCADE: users -> conversations -> messages
ConvsOfUsers(cs, uids) == {c \in cs : c.userId \in uids}
MsgsOfConvs(ms, cids) == {m \in ms : m.conversationId \in cids}

\* a reading of the wall clock: never earlier than the previous reading
Readings == {t \in {clock, clock + 1} : t <= MaxClock}

\* ------------------------------------------------------ response normalizer
\* src/lib/dify-normalizer.js (part_026).  A string is a sequence of tokens:
\* "s" a whitespace character, "a" a word of prose, "F" a fence marker (three
\* backticks), "J" the text of one JSON value, the string's `payload`, and
\* "h" the word a payload's `answer` property holds.
Tokens == {"s", "a", "F", "J"}

\* a JSON value: an object with the three properties the normalizer reads
\* ("absent" = the object has no such key, "string" = a value that is not a
\* boolean), or a value of another kind
JsonObject(valid, ambiguous, answer) ==
  [kind |-> "object", valid |-> valid, ambiguous |-> ambiguous, answer |-> answer]
JsonOther(kind) ==
  [kind |-> kind, valid |-> "absent", ambiguous |-> "absent", answer |-> "absent"]
JsonNull == JsonOther("null")
EmptyObject == JsonObject("absent", "absent", "absent")
FlagValues == {"absent", "true", "false", "string"}
AnswerValues == {"absent", "null", "string"}
JsonValues ==
  {JsonObject(v, a, t) : v \in FlagValues, a \in FlagValues, t \in AnswerValues}
  \cup {JsonOther("array"), JsonOther("number"), JsonNull}

\* typeof x === 'boolean'
IsBoolean(x) == x \in {"true", "false"}

\* JavaScript values a text field can hold
HasJson(toks) == \E i \in 1..Len(toks) : toks[i] = "J"
String(toks, payload) ==
  [kind |-> "string", toks |-> toks,
   payload |-> IF HasJson(toks) THEN payload ELSE JsonNull]
Undefined == [kind |-> "undefined", toks |-> <<>>, payload |-> JsonNull]
Number == [kind |-> "number", toks |-> <<>>, payload |-> JsonNull]
EmptyString == String(<<>>, JsonNull)

\* a ?? b
Coalesce(a, b) == IF a.kind = "undefined" THEN b ELSE a

\* String.prototype.trim
RECURSIVE TrimStart(_)
TrimStart(toks) ==
  IF toks # <<>> /\ Head(toks) = "s" THEN TrimStart(Tail(toks)) ELSE toks
RECURSIVE TrimEnd(_)
TrimEnd(toks) ==
  IF toks # <<>> /\ toks[Len(toks)] = "s"
    THEN TrimEnd(SubSeq(toks, 1, Len(toks) - 1))
    ELSE toks
Trim(toks) == TrimEnd(TrimStart(toks))

\* /```(?:json)?\s*([\s\S]*?)\s*```/ : the leftmost fence marker that has a
\* later one, up to the next marker; group 1 is what lies between them
\* without the whitespace at its ends
FencesFrom(toks, i) == {j \in i..Len(toks) : toks[j] = "F"}
Least(S) == CHOOSE x \in S : \A y \in S : x <= y
FenceMatch(toks) ==
  LET opens == FencesFrom(toks, 1)
      open  == IF opens = {} THEN 0 ELSE Least(opens)
      closes == IF open = 0 THEN {} ELSE FencesFrom(toks, open + 1)
      close == IF closes = {} THEN 0 ELSE Least(closes)
  IN  [found |-> close # 0, open |-> open, close |-> close,
       group1 |-> IF close = 0 THEN <<>> ELSE Trim(SubSeq(toks, open + 1, close - 1))]

\* text.replace(/.../gi, '$1'): every match, left to right, gives way to
\* its group 1
RECURSIVE ReplaceFences(_)
ReplaceMatch(toks, m) ==
  SubSeq(toks, 1, m.open - 1) \o m.group1
    \o ReplaceFences(SubSeq(toks, m.close + 1, Len(toks)))
ReplaceFences(toks) ==
  IF ~FenceMatch(toks).found THEN toks
  ELSE ReplaceMatch(toks, FenceMatch(toks))

\* stripCodeFences (part_026 15-18)
StripCodeFences(text) ==
  IF text.kind # "string" \/ text.toks = <<>> THEN EmptyString
  ELSE String(Trim(ReplaceFences(text.toks)), text.payload)

\* JSON.parse accepts one JSON value with whitespace around it; null when
\* it throws
JsonParse(toks, payload) == IF Trim(toks) = <<"J">> THEN payload ELSE JsonNull
CanParse(toks) == Trim(toks) = <<"J">>

\* tryParseJsonFromText (part_026 25-42): the text itself, else group 1 of
\* the first fence match
ParseGroup1(fenceMatch, payload) ==
  IF fenceMatch.found /\ fenceMatch.group1 # <<>>
    THEN JsonParse(fenceMatch.group1, payload)
    ELSE JsonNull
TryParseJsonFromText(text) ==
  IF text.kind # "string" \/ text.toks = <<>> THEN JsonNull
  ELSE IF CanParse(text.toks) THEN JsonParse(text.toks, text.payload)
  ELSE ParseGroup1(FenceMatch(text.toks), text.payload)

\* the answers of the external AI service: response.data
Data(answer, output, text, conversation_id, id) ==
  [answer |-> answer, output |-> output, text |-> text,
   conversation_id |-> conversation_id, id |-> id]
NoData == Data(Undefined, Undefined, Undefined, NoId, NoId)

\* let valid = false; if (typeof outputs?.valid === 'boolean') valid = ...
ValidOf(outputs) ==
  IF IsBoolean(outputs.valid) THEN outputs.valid = "true" ELSE FALSE

\* let ambiguous = true; the explicit boolean, else the negation of an
\* explicit valid
AmbiguousIgnoringValid(outputs) ==
  IF IsBoolean(outputs.ambiguous) THEN outputs.ambiguous = "true" ELSE TRUE
AmbiguousOf(outputs) ==
  IF IsBoolean(outputs.ambiguous) THEN outputs.ambiguous = "true"
  ELSE IF IsBoolean(outputs.valid) THEN ~(outputs.valid = "true")
  ELSE TRUE

\* outputs?.answer ?? stripCodeFences(text) ?? text ?? ''
AnswerOf(outputs, text) ==
  IF outputs.answer = "string" THEN String(<<"h">>, JsonNull)
  ELSE StripCodeFences(text)

\* normalizeDifyResponse (part_026 57-105)
TextOf(d) == Coalesce(Coalesce(Coalesce(d.answer, d.output), d.text), EmptyString)
OutputsOf(parsed) ==
  IF parsed.kind \in {"object", "array"} THEN parsed ELSE EmptyObject
Normalized(d, text, outputs) ==
  [text |-> text,
   answer |-> AnswerOf(outputs, text),
   valid |-> ValidOf(outputs),
   isValid |-> ValidOf(outputs),
   ambiguous |-> AmbiguousOf(outputs),
   conversation_id |-> IF d.conversation_id # NoId THEN d.conversation_id ELSE d.id,
   outputs |-> outputs,
   raw |-> d]
NormalizeDifyResponse(d) ==
  Normalized(d, TextOf(d), OutputsOf(TryParseJsonFromText(TextOf(d))))
NoNormalized ==
  [text |-> Undefined, answer |-> Undefined, valid |-> FALSE, isValid |-> FALSE,
   ambiguous |-> FALSE, conversation_id |-> NoId, outputs |-> JsonNull, raw |-> NoData]

\* the strings of at most MaxLen tokens, each with every payload it can embed
Texts ==
  LET seqs == UNION {[1..n -> Tokens] : n \in 0..MaxLen}
  IN  {String(toks, j) : toks \in seqs, j \in JsonValues}

\* the answers the normalizer is given: the text in `answer`, with and
\* without the session id and the message id; a text that is not a string;
\* and answers that carry their text under `output` or `text`, or nowhere
DifyResponses ==
  {Data(t, Undefined, Undefined, c, i) :
     t \in Texts \cup {Number}, c \in {NoId, Id("dify-", 1)}, i \in {NoId, Id("dmsg", 1)}}
  \cup {Data(Undefined, o, x, NoId, NoId) :
          o \in {Undefined, String(<<"a">>, JsonNull)},
          x \in {Undefined, String(<<"s", "a">>, JsonNull)}}

\* const normalized = normalizeDifyResponse(difyResponse.data)
Normalize ==
  /\ normalized = NoNormalized
  /\ normalized' = NormalizeDifyResponse(difyResponse)
  /\ UNCHANGED <<users, convs, msgs, clock, issued, nreq, pc, loc, resp, hook, dlog,
                 difyResponse>>

\* what a turn reports of the AI service's answer: the display text, the
\* flags ("absent" = the body has no such field) and the session id
Reply(answer, valid, ambiguous, isValid, conversation_id) ==
  [answer |-> answer, valid |-> valid, ambiguous |-> ambiguous, isValid |-> isValid,
   conversation_id |-> conversation_id]
NoReply == Reply(Undefined, "absent", "absent", "absent", NoId)

\* responses are [status, body]; `err` keeps the error that caused a failure
\* response (the handlers log it), "" when there was none; `query` is the
\* shape of the query of a turn that was answered before it took a slot,
\* `data` the answer of the AI service the request got and `reply` what the
\* body reports of it; `list` is the array a listing returned under `order`
Resp(status, body, err) ==
  [kind |-> "", status |-> status, body |-> body, err |-> err, conv |-> NoId,
   sid |-> NoId, query |-> "", data |-> NoData, reply |-> NoReply,
   order |-> "", list |-> <<>>]
\* a success response that carries a conversation: its row id and session id
RespConv(status, body, conv, sid) ==
  [kind |-> "", status |-> status, body |-> body, err |-> "", conv |-> conv,
   sid |-> sid, query |-> "", data |-> NoData, reply |-> NoReply,
   order |-> "", list |-> <<>>]
NoResp == Resp(0, "", "")

\* ------------------------------------------------------------------ webhook
\* A delivery: hdrs = the three svix headers are present, sig = wh.verify
\* accepts the raw body, and the verified event.  shape "ok" = evt.data with
\* an id, "noid" = evt.data without id, "nodata" = no evt.data at all.
EventTypes == {"user.created", "user.updated", "user.deleted", "session.created"}
Emails     == {"", "e1", "e2"}
FirstNames == {"", "Ann"}
LastNames  == {"", "Lee"}
Event(type, shape, id, email, first, last) ==
  [type |-> type, shape |-> shape, id |-> id, email |-> email,
   first_name |-> first, last_name |-> last]
NoEvent == Event("", "", NoId, "", "", "")

\* the events the identity provider sends: per identity a full profile and
\* one with an email alone, and events that lack the id or the data
AllEvents ==
  {Event(t, "ok", a, "e1", "Ann", "Lee") : t \in EventTypes, a \in AuthIds}
  \cup {Event(t, "ok", a, "e2", "", "") : t \in EventTypes, a \in AuthIds}
  \cup {Event(t, sh, NoId, "", "", "") : t \in EventTypes, sh \in {"noid", "nodata"}}

\* `${first_name || ''} ${last_name || ''}`.trim() || null
FullName(first, last) ==
  CASE first # "" /\ last # "" -> "Ann Lee"
    [] first # "" /\ last = "" -> first
    [] first = "" /\ last # "" -> last
    [] OTHER -> ""

\* prisma.user.upsert({where: {authId}, update: {...}, create: {...}}): the
\* where clause is one unique field that the create data repeats, so Prisma
\* issues one INSERT ... ON CONFLICT (auth_id) DO UPDATE statement.
UpsertIgnoringConflict(us, newId, authId, email, name) ==
  IF UserByAuth(us, authId) = {}
    THEN us \cup {[id |-> newId, authId |-> authId, email |-> email, firstName |-> name]}
    ELSE us
UpsertUser(us, newId, authId, email, name) ==
  IF UserByAuth(us, authId) = {}
    THEN us \cup {[id |-> newId, authId |-> authId, email |-> email, firstName |-> name]}
    ELSE {IF u.authId = authId THEN [u EXCEPT !.email = email, !.firstName = name] ELSE u
            : u \in us}

\* rows left in the three tables after prisma.user.delete({where: {authId}})
\* and the cascades of the foreign keys
DeleteKeepingUser(us, cs, ms, authId) ==
  LET gone  == {u.id : u \in UserByAuth(us, authId)}
      goneC == {c.id : c \in ConvsOfUsers(cs, gone)}
  IN  [users |-> us,
       convs |-> {c \in cs : c.id \notin goneC},
       msgs  |-> {m \in ms : m.conversationId \notin goneC}]
DeleteUserCascade(us, cs, ms, authId) ==
  LET gone  == {u.id : u \in UserByAuth(us, authId)}
      goneC == {c.id : c \in ConvsOfUsers(cs, gone)}
  IN  [users |-> {u \in us : u.id \notin gone},
       convs |-> {c \in cs : c.id \notin goneC},
       msgs  |-> {m \in ms : m.conversationId \notin goneC}]

\* what the catch block of the `deleted` branch answers for a store error
DeletedCatchAlways500(code) ==
  Resp(500, "Database error", code)
DeletedCatch(code) ==
  IF code = "P2025"
    THEN Resp(200, "Webhook processed successfully", "")
    ELSE Resp(500, "Database error", code)

\* rows a request holds staged in an open transaction keep a key-share lock
\* on their conversation: a cascading delete of that conversation waits
LockedConvs ==
  UNION {{loc[p].tx[i].conversationId : i \in 1..Len(loc[p].tx)} : p \in Procs}

\* src/routes/webhooks/clerk.js: the handler as the pair of its response and
\* the tables it leaves.  dbFail = the store is unreachable (P1017).
ClerkOutcome(hdrs, sig, evt, dbFail, newId) ==
  LET same == [users |-> users, convs |-> convs, msgs |-> msgs]
      name == FullName(evt.first_name, evt.last_name)
  IN
  IF ~hdrs THEN [resp |-> Resp(400, "Missing webhook headers", ""), db |-> same]
  ELSE IF ~sig THEN [resp |-> Resp(400, "Webhook verification failed", ""), db |-> same]
  ELSE IF evt.type \notin {"user.created", "user.updated", "user.deleted"}
    THEN [resp |-> Resp(200, "Event ignored", ""), db |-> same]
  ELSE IF evt.shape = "nodata"
    \* destructuring evt.data throws a TypeError: the outer catch
    THEN [resp |-> Resp(500, "Internal server error", "TypeError"), db |-> same]
  ELSE IF evt.type \in {"user.created", "user.updated"}
    THEN IF evt.shape = "noid"
           \* where: {authId: undefined} is refused by the Prisma client
           THEN [resp |-> Resp(500, IF evt.type = "user.created"
                                      THEN "Database error creating user"
                                      ELSE "Database error updating user",
                               "PrismaClientValidationError"), db |-> same]
         ELSE IF dbFail
           THEN [resp |-> Resp(500, IF evt.type = "user.created"
                                      THEN "Database error creating user"
                                      ELSE "Database error updating user", "P1017"),
                 db |-> same]
         ELSE [resp |-> Resp(200, "Webhook processed successfully", ""),
               db |-> [same EXCEPT !.users = UpsertUser(users, newId, evt.id, evt.email, name)]]
  ELSE \* user.deleted
    IF evt.shape = "noid"
      THEN [resp |-> DeletedCatch("PrismaClientValidationError"), db |-> same]
    ELSE IF dbFail THEN [resp |-> DeletedCatch("P1017"), db |-> same]
    ELSE IF UserByAuth(users, evt.id) = {}
      THEN [resp |-> DeletedCatch("P2025"), db |-> same]
    ELSE [resp |-> Resp(200, "Webhook processed successfully", ""),
          db |-> DeleteUserCascade(users, convs, msgs, evt.id)]

\* src/src/routes/financial/savings.ts 409-700: the TypeScript port of the
\* same handler.  It adds shape checks (evt.data, and the id for
\* created/updated) and stores first_name alone.
ClerkOutcomeTS(hdrs, sig, evt, dbFail, newId) ==
  LET same == [users |-> users, convs |-> convs, msgs |-> msgs]
      firstName == evt.first_name
  IN
  IF ~hdrs THEN [resp |-> Resp(400, "Missing required webhook headers", ""), db |-> same]
  ELSE IF ~sig THEN [resp |-> Resp(401, "Webhook verification failed", ""), db |-> same]
  ELSE IF evt.shape = "nodata"
    THEN [resp |-> Resp(400, "Event missing required fields", ""), db |-> same]
  ELSE IF evt.type \notin {"user.created", "user.updated", "user.deleted"}
    THEN [resp |-> Resp(200, "Event type not handled", ""), db |-> same]
  ELSE IF evt.type \in {"user.created", "user.updated"}
    THEN IF evt.shape = "noid"
           THEN [resp |-> Resp(400, "Missing clerk user ID", ""), db |-> same]
         ELSE IF dbFail
           THEN [resp |-> Resp(500, IF evt.type = "user.created"
                                      THEN "Database error creating user"
                                      ELSE "Database error updating user", "P1017"),
                 db |-> same]
         ELSE [resp |-> Resp(200, "Webhook processed successfully", ""),
               db |-> [same EXCEPT
                         !.users = UpsertUser(users, newId, evt.id, evt.email, firstName)]]
  ELSE \* user.deleted
    IF evt.shape = "noid"
      THEN [resp |-> DeletedCatch("PrismaClientValidationError"), db |-> same]
    ELSE IF dbFail THEN [resp |-> DeletedCatch("P1017"), db |-> same]
    ELSE IF UserByAuth(users, evt.id) = {}
      THEN [resp |-> DeletedCatch("P2025"), db |-> same]
    ELSE [resp |-> Resp(200, "Webhook processed successfully", ""),
          db |-> DeleteUserCascade(users, convs, msgs, evt.id)]

\* the column the handler writes the event's name into
EventName(impl, evt) ==
  IF impl = "js" THEN FullName(evt.first_name, evt.last_name) ELSE evt.first_name

\* the deliveries a sender can make of the events `events`: unverifiable
\* ones (a header missing, or a signature wh.verify rejects; their body is
\* never parsed) and verified ones, which may find the store unreachable
Deliveries(events) ==
  {[hdrs |-> FALSE, sig |-> FALSE, evt |-> NoEvent, dbFail |-> FALSE],
   [hdrs |-> TRUE, sig |-> FALSE, evt |-> NoEvent, dbFail |-> FALSE]}
  \cup {[hdrs |-> TRUE, sig |-> TRUE, evt |-> e, dbFail |-> f] :
          e \in events, f \in BOOLEAN}

\* One delivery to POST /v1/webhooks/clerk, handled by either build of the
\* handler.  The handler's only store access is a single statement, so the
\* whole delivery is one step.  A cascade waits for open transactions that
\* hold rows of the conversations it removes.  `replay` notes that the
\* delivery repeats the event of the previous, successful, delivery, and
\* `prev` is the event of that previous successful delivery.
Deliver(impl, events, max) ==
  /\ nreq < max
  /\ \E d \in Deliveries(events) :
       LET newId == Id("usr", nreq + 1)
           o == IF impl = "js" THEN ClerkOutcome(d.hdrs, d.sig, d.evt, d.dbFail, newId)
                               ELSE ClerkOutcomeTS(d.hdrs, d.sig, d.evt, d.dbFail, newId)
       IN  /\ {c.id : c \in convs \ o.db.convs} \cap LockedConvs = {}
           /\ users' = o.db.users
           /\ convs' = o.db.convs
           /\ msgs' = o.db.msgs
           /\ hook' = [n |-> nreq + 1, impl |-> impl, hdrs |-> d.hdrs, sig |-> d.sig,
                       evt |-> d.evt, dbFail |-> d.dbFail, resp |-> o.resp,
                       replay |-> /\ d.sig /\ d.evt = hook.evt /\ impl = hook.impl
                                  /\ hook.resp.status = 200,
                       prev |-> IF hook.resp.status = 200 THEN hook.evt ELSE NoEvent]
  /\ nreq' = nreq + 1
  /\ resp' = NoResp
  /\ UNCHANGED <<clock, issued, pc, loc, dlog, difyResponse, normalized>>

NoHook == [n |-> 0, impl |-> "", hdrs |-> FALSE, sig |-> FALSE, evt |-> NoEvent,
           dbFail |-> FALSE, resp |-> NoResp, replay |-> FALSE, prev |-> NoEvent]

\* ------------------------------------------------------- request handlers
NoLoc == [kind |-> "", n |-> 0, auth |-> NoId, valid |-> TRUE, topic |-> "", ext |-> NoId,
          user |-> NoUser, conv |-> NoConv, isNew |-> FALSE, sent |-> NoId,
          batch |-> <<>>, tx |-> <<>>, target |-> NoId, msg |-> NoMsg,
          data |-> NoData, query |-> ""]

\* the await a handler continues with once getUserByClerkId has returned
AfterUser(kind) ==
  CASE kind = "turn"    -> "foc_find"
    [] kind = "create"  -> "foc_find"
    [] kind = "income"  -> "inc_get"
    [] kind = "delete"  -> "del_find"
    [] kind = "pair"    -> "pair_get"
    [] kind = "single"  -> "pair_get"
    [] kind = "byid"    -> "id_own"
    [] kind = "listing" -> "list_read"
    [] OTHER            -> "respond"

\* the await a handler continues with once findOrCreateConversation returned
AfterConv(kind) ==
  CASE kind = "turn"    -> "dify"
    [] kind = "income"  -> "tx_ins"
    [] OTHER            -> "respond"

\* The catch block of the anonymous routes (part_019 356-386, part_018
\* 118-147, routes/messages.js 207-235) and src/middleware/error.js: an error
\* with an upstream response, a timeout (ECONNABORTED, ETIMEDOUT) and
\* ENOTFOUND/ECONNREFUSED become an ExternalServiceError with status 502 and
\* code UPSTREAM_ERROR; any other error is rethrown as it is, and the
\* middleware answers 500 UNHANDLED_ERROR with the error's own message.  The
\* body is written as the code of {error: {code, message}}.
DifyCatch(cause) ==
  IF cause = "upstream" THEN Resp(502, "UPSTREAM_ERROR", cause)
  ELSE IF cause \in {"ECONNABORTED", "ETIMEDOUT"} THEN Resp(502, "UPSTREAM_ERROR", cause)
  ELSE IF cause \in {"ENOTFOUND", "ECONNREFUSED"} THEN Resp(502, "UPSTREAM_ERROR", cause)
  ELSE Resp(500, "UNHANDLED_ERROR", cause)

\* What each route answers when an await of its handler rejected with the
\* store/client error `code`.
\*  turn    (index.js 269-277): error.response?.status || 500
\*  create  (routes/conversations.js 48-56, src/middleware/error.js): wrapError
\*          keeps the AppError status, 500 for store errors
\*  income  (part_019 152-161): 409 only for an error whose own code is P2002;
\*          the services rethrow through wrapError, whose AppError has code
\*          APP_ERROR
\*  delete  (routes/messages.js 447-456): 404 for the merged error, else 500
\*  pair    (routes/messages.js 420-425, src/middleware/error.js): 500
\*  single  (routes/messages.js 379-384, src/middleware/error.js): 500
\*  profile (index.js 368-381): 503 for a lost connection, else 500
\*  analyze (part_019 356-386) and debt (part_018 118-147): DifyCatch
\*  byid, public (routes/messages.js 206-235): the two branches of
\*          POST /:conversationId/messages; DifyCatch for the public one
\*  listing (routes/messages.js 322-328): 500
ErrorResponse(kind, code) ==
  CASE kind = "turn"   -> Resp(500, "error.message", code)
    [] kind = "create" -> Resp(500, "[POST /v1/conversations] create conversation", code)
    [] kind = "income" -> Resp(500, "Failed to create income conversation", code)
    [] kind = "delete" ->
         IF code = "Message not found or unauthorized"
           THEN Resp(404, "Message not found or unauthorized", "")
           ELSE Resp(500, "[DELETE /v1/messages] delete message", code)
    [] kind = "pair" -> Resp(500, "[POST /v1/messages/pair] add message pair", code)
    [] kind = "single" -> Resp(500, "[POST /v1/messages] add single message", code)
    [] kind \in {"analyze", "debt", "public"} -> DifyCatch(code)
    [] kind = "byid" -> Resp(500, "[POST /:conversationId/messages] add message", code)
    [] kind = "listing" ->
         Resp(500, "[GET /:conversationId/messages] fetch conversation messages", code)
    [] OTHER ->
         IF code = "P1017" THEN Resp(503, "Service temporarily unavailable", code)
                           ELSE Resp(500, "Failed to retrieve user profile", code)

\* res.json: the request is answered and its locals are gone.  `kind` notes
\* the route that answered.
Send(p, r) ==
  /\ resp' = [r EXCEPT !.kind = loc[p].kind]
  /\ pc' = [pc EXCEPT ![p] = "idle"]
  /\ loc' = [loc EXCEPT ![p] = NoLoc]

\* the handler's catch block: answer and finish; an open transaction of the
\* request is rolled back (its staged rows are dropped with the locals)
Fail(p, code) == Send(p, ErrorResponse(loc[p].kind, code))

\* What each route answers when its handler ran to the end.
\*  turn    (index.js 263-268): answer, conversation_id, conversationDbId
\*  create  (routes/conversations.js 43-46): 201 with the conversation
\*  income  (part_019 148-151): 201 with conversationId and all messages
\*  delete  (routes/messages.js 442-445)
\*  pair    (routes/messages.js 416-419)
\*  single  (routes/messages.js 375-378)
\*  profile (index.js 355-367)
\*  analyze (part_019 343-354), debt (part_018 97-116)
\*  byid    (routes/messages.js 201-205), public (routes/messages.js 147-177)
\* typeof a flag in a JSON body
Flag(b) == IF b THEN "true" ELSE "false"

\* normalized.text || 'I apologize, ...'
Fallback == String(<<"sorry">>, JsonNull)
TextOr(text, fallback) ==
  IF text.kind = "undefined" \/ (text.kind = "string" /\ text.toks = <<>>)
    THEN fallback ELSE text

\* what the body of a turn reports of the answer `data`:
\*  turn    (index.js 241, 263-268): response.data.answer as it came, and
\*          the session id the handler holds; no flags
\*  analyze (part_019 340-354): the normalizer's answer, flags and id
\*  debt    (part_018 94-110): the normalizer's text as content, its flags
\*          and id
ReplyOf(kind, data, n, difyConversationId) ==
  CASE kind = "turn" ->
         Reply(data.answer, "absent", "absent", "absent", difyConversationId)
    [] kind = "analyze" ->
         Reply(n.answer, Flag(n.valid), Flag(n.ambiguous), Flag(n.isValid),
               n.conversation_id)
    [] OTHER ->
         Reply(TextOr(n.text, Fallback), Flag(n.valid), Flag(n.ambiguous),
               Flag(n.isValid), n.conversation_id)
TurnReply(kind, data, difyConversationId) ==
  ReplyOf(kind, data, NormalizeDifyResponse(data), difyConversationId)

\* status, message and ids of the body of a completed turn
TurnResponse(l) ==
  CASE l.kind = "turn"    -> RespConv(200, "answer", l.conv.id, l.ext)
    [] l.kind = "analyze" -> RespConv(200, "normalized", NoId, l.data.conversation_id)
    [] OTHER              -> RespConv(201, "message", NoId, l.data.conversation_id)

SuccessResponse(l) ==
  CASE l.kind \in {"turn", "analyze", "debt", "public"} ->
         [TurnResponse(l) EXCEPT !.data = l.data,
                                 !.reply = TurnReply(l.kind, l.data, l.ext)]
    [] l.kind = "create" -> RespConv(201, "success", l.conv.id, l.conv.conversationId)
    [] l.kind = "income" -> RespConv(201, "messages", l.conv.id, NoId)
    [] l.kind = "delete" -> Resp(200, "Message deleted successfully", "")
    [] l.kind = "pair"   -> RespConv(201, "success", l.conv.id, NoId)
    [] l.kind = "single" -> RespConv(201, "success", l.conv.id, NoId)
    [] l.kind = "byid"   -> RespConv(201, "success", l.conv.id, l.ext)
    [] OTHER             -> Resp(200, "User profile retrieved successfully", "")

\* continue at the await `label`; "respond" = no await is left, the handler
\* sends its success response in the same step
Goto(p, label, newLoc) ==
  IF label = "respond"
    THEN Send(p, SuccessResponse(newLoc))
    ELSE /\ pc' = [pc EXCEPT ![p] = label]
         /\ loc' = [loc EXCEPT ![p] = newLoc]
         /\ resp' = NoResp

\* ---- getUserByClerkId (index.js 280-341, middleware/auth.js = part_015 13-69)
GuFind(p) ==
  /\ pc[p] = "gu_find"
  /\ \E dbFail \in BOOLEAN :
       IF dbFail THEN Fail(p, "P1017")
       ELSE IF UserByAuth(users, loc[p].auth) # {}
         THEN \E u \in UserByAuth(users, loc[p].auth) :
                Goto(p, AfterUser(loc[p].kind), [loc[p] EXCEPT !.user = u])
         ELSE Goto(p, "gu_create", loc[p])
  /\ UNCHANGED <<users, convs, msgs, clock, issued, nreq, hook, difyResponse,
                 normalized, dlog>>

\* prisma.user.create: the unique index users_auth_id_key rejects a second
\* row for the same external id with P2002; the code is written with the
\* columns of the violated constraint (error.meta.target)
UserCreateError(us, authId, dbFail) ==
  IF dbFail THEN "P1017"
  ELSE IF UserByAuth(us, authId) # {} THEN "P2002(auth_id)"
  ELSE ""

\* the profile the identity provider returns; the fetch may fail, and then
\* the row is created with the id alone
GuCreate(p, emails, firstNames) ==
  /\ pc[p] = "gu_create"
  /\ \E dbFail \in BOOLEAN, email \in emails, firstName \in firstNames :
       LET code == UserCreateError(users, loc[p].auth, dbFail)
           u == [id |-> Id("usr", loc[p].n), authId |-> loc[p].auth,
                 email |-> email, firstName |-> firstName]
       IN  IF code # "" THEN Fail(p, code) /\ UNCHANGED users
           ELSE /\ users' = users \cup {u}
                /\ Goto(p, AfterUser(loc[p].kind), [loc[p] EXCEPT !.user = u])
  /\ UNCHANGED <<convs, msgs, clock, issued, nreq, hook, difyResponse, normalized, dlog>>

\* ---- findOrCreateConversation (services/conversationService.js 12-47,
\* ---- part_025 114-148)
\* prisma.conversation.findFirst({where: {userId, chatType: upper}})
FocFind(p) ==
  /\ pc[p] = "foc_find"
  /\ \E dbFail \in BOOLEAN :
       LET ct == ToUpperCase(loc[p].topic)
           found == ConvByPair(convs, loc[p].user.id, ct)
       IN  \* routes/conversations.js 25-35: the create route validates
           \* chatType before it calls findOrCreateConversation
           IF loc[p].kind = "create" /\ ct \notin ChatTypeEnum
             THEN Send(p, Resp(400, "Invalid chatType", "VALIDATION_ERROR"))
           ELSE IF dbFail THEN Fail(p, "P1017")
           ELSE IF ct \notin ChatTypeEnum THEN Fail(p, "PrismaClientValidationError")
           ELSE IF found # {}
             THEN \E c \in found :
                    Goto(p, AfterConv(loc[p].kind), [loc[p] EXCEPT !.conv = c])
             ELSE Goto(p, "foc_create", loc[p])
  /\ UNCHANGED <<users, convs, msgs, clock, issued, nreq, hook, difyResponse,
                 normalized, dlog>>

\* The store's verdict on INSERT INTO conversations: the foreign key to
\* users, the unique constraint conversations_user_id_chat_type_key and the
\* unique index conversations_conversation_id_key.
InsertConvErrorNoPairKey(us, cs, row, dbFail) ==
  IF dbFail THEN "P1017"
  ELSE IF row.chatType \notin ChatTypeEnum THEN "PrismaClientValidationError"
  ELSE IF {u \in us : u.id = row.userId} = {} THEN "P2003"
  ELSE IF {c \in cs : c.conversationId = row.conversationId} # {}
    THEN "P2002(conversation_id)"
  ELSE ""
InsertConvError(us, cs, row, dbFail) ==
  IF dbFail THEN "P1017"
  ELSE IF row.chatType \notin ChatTypeEnum THEN "PrismaClientValidationError"
  ELSE IF {u \in us : u.id = row.userId} = {} THEN "P2003"
  ELSE IF ConvByPair(cs, row.userId, row.chatType) # {} THEN "P2002(user_id,chat_type)"
  ELSE IF {c \in cs : c.conversationId = row.conversationId} # {}
    THEN "P2002(conversation_id)"
  ELSE ""

\* conversationId: difyConversationId || `${userId}-${chatType}-${Date.now()}`
NewConversationId(ext, userId, chatType, now) ==
  IF ext # NoId THEN ext ELSE Sentinel(userId, chatType, now)

\* prisma.conversation.create; a rejection propagates to the caller of
\* findOrCreateConversation
FocCreate(p) ==
  /\ pc[p] = "foc_create"
  /\ \E dbFail \in BOOLEAN, t \in Readings :
       LET row == [id |-> Id("cnv", loc[p].n), userId |-> loc[p].user.id,
                   chatType |-> ToUpperCase(loc[p].topic),
                   conversationId |->
                     NewConversationId(loc[p].ext, loc[p].user.id, loc[p].topic, t),
                   updatedAt |-> t]
           code == InsertConvError(users, convs, row, dbFail)
       IN  IF code # "" THEN Fail(p, code) /\ UNCHANGED <<convs, clock>>
           ELSE /\ convs' = convs \cup {row}
                /\ clock' = t
                /\ Goto(p, AfterConv(loc[p].kind), [loc[p] EXCEPT !.conv = row])
  /\ UNCHANGED <<users, msgs, issued, nreq, hook, difyResponse, normalized, dlog>>

\* ---- income route (routes/conversations/income.js = part_019 77-162)
\* getConversationByType(user.id, 'INCOME'); findOrCreateConversation only
\* when it returned null
IncGet(p) ==
  /\ pc[p] = "inc_get"
  /\ \E dbFail \in BOOLEAN :
       LET found == ConvByPair(convs, loc[p].user.id, ToUpperCase(loc[p].topic))
       IN  \* part_019 82-89: validateIncomeData
           IF ~loc[p].valid THEN Send(p, Resp(422, "Validation failed", "VALIDATION_ERROR"))
           ELSE IF dbFail THEN Fail(p, "P1017")
           ELSE IF found # {}
             THEN \E c \in found : Goto(p, "tx_ins", [loc[p] EXCEPT !.conv = c])
             ELSE Goto(p, "foc_find", loc[p])
  /\ UNCHANGED <<users, convs, msgs, clock, issued, nreq, hook, difyResponse,
                 normalized, dlog>>

\* ---- authenticated turn, POST /v1/conversations/:type (index.js 195-278)
\* axios.post to the external AI service.  With no session id the service
\* opens a session under an id it has not issued before; with a session id
\* it has issued it answers under that id; an id it does not know is an
\* upstream HTTP error.  The call can also fail without a response.
\* `noSid` = the answer carries no conversation_id.  `outcomes` = the
\* behaviours of the service a specification considers, `answers` the texts
\* it answers with.  The call has no timeout: while the service does not
\* answer, the handler stays at this await.
Dify(p, outcomes, answers) ==
  /\ pc[p] = "dify"
  /\ LET isNew == ~IncludesDify(loc[p].conv.conversationId)
         sent  == IF isNew THEN NoId ELSE loc[p].conv.conversationId
         l     == [loc[p] EXCEPT !.isNew = isNew, !.sent = sent]
     IN  \E outcome \in outcomes :
           CASE outcome = "http" ->
                  /\ Send(p, Resp(404, "error.response.data", "upstream"))
                  /\ UNCHANGED issued
             [] outcome = "net" -> Fail(p, "ECONNREFUSED") /\ UNCHANGED issued
             [] outcome = "noSid" ->
                  \E t \in answers :
                    /\ sent = NoId \/ sent \in issued
                    /\ Goto(p, "tx_ins",
                            [l EXCEPT !.ext = l.conv.conversationId,
                                      !.data = Data(t, Undefined, Undefined, NoId, NoId)])
                    /\ UNCHANGED issued
             [] OTHER ->
                  \E sid \in ExtIds, t \in answers :
                    LET m == [l EXCEPT !.data = Data(t, Undefined, Undefined, sid, NoId)]
                    IN
                    /\ IF sent = NoId THEN sid \notin issued ELSE sid = sent /\ sid \in issued
                    /\ issued' = issued \cup {sid}
                    \* if (conversation_id && isNewConversation) patch, else
                    \* difyConversationId stays the stored id
                    /\ IF isNew THEN Goto(p, "patch", [m EXCEPT !.ext = sid])
                                ELSE Goto(p, "tx_ins", [m EXCEPT !.ext = l.conv.conversationId])
  /\ UNCHANGED <<users, convs, msgs, clock, nreq, hook, difyResponse, normalized, dlog>>

\* the store's verdict on UPDATE conversations SET conversation_id = sid
\* WHERE id = pk
PatchError(cs, pk, sid, dbFail) ==
  IF dbFail THEN "P1017"
  ELSE IF ConvByPk(cs, pk) = {} THEN "P2025"
  ELSE IF {c \in cs : c.conversationId = sid /\ c.id # pk} # {}
    THEN "P2002(conversation_id)"
  ELSE ""

\* prisma.conversation.update({where: {id}, data: {conversationId}}), a
\* statement of its own, outside the transaction of addMessagePair
Patch(p) ==
  /\ pc[p] = "patch"
  /\ \E dbFail \in BOOLEAN, t \in Readings :
       LET code == PatchError(convs, loc[p].conv.id, loc[p].ext, dbFail)
       IN  IF code # "" THEN Fail(p, code) /\ UNCHANGED <<convs, clock>>
           ELSE /\ convs' = {IF c.id = loc[p].conv.id
                               THEN [c EXCEPT !.conversationId = loc[p].ext,
                                              !.updatedAt = t]
                               ELSE c : c \in convs}
                /\ clock' = t
                /\ Goto(p, "tx_ins", loc[p])
  /\ UNCHANGED <<users, msgs, issued, nreq, hook, difyResponse, normalized, dlog>>

\* ---- addMessagePair / addMessages (services/messageService.js =
\* ---- conversationService.js 317-389): prisma.$transaction(async tx => ...)
\* tx.message.create: the row is written inside the open transaction, where
\* no other request sees it
StageRowAutocommit(committed, staged, row) ==
  [msgs |-> committed \cup {row}, tx |-> Append(staged, row)]
StageRow(committed, staged, row) ==
  [msgs |-> committed, tx |-> Append(staged, row)]

\* the store's verdict on INSERT INTO messages: the foreign key to
\* conversations
InsertMsgErrorNoForeignKey(cs, cid, dbFail) ==
  IF dbFail THEN "P1017" ELSE ""
InsertMsgError(cs, cid, dbFail) ==
  IF dbFail THEN "P1017"
  ELSE IF ConvByPk(cs, cid) = {} THEN "P2003"
  ELSE ""

Rows(seq) == {seq[i] : i \in 1..Len(seq)}

\* the conversationId argument of addMessagePair / addMessages: the row's
\* primary key in the turn (index.js 251) and the income route (part_019
\* 129), the request's own conversationId in POST /pair (routes/messages.js
\* 414), in POST /v1/messages (routes/messages.js 373) and in
\* POST /:conversationId/messages (routes/messages.js 199)
TxConv(l) == IF l.kind \in {"pair", "single", "byid"} THEN l.ext ELSE l.conv.id

\* one tx.message.create of the callback: row Len(tx)+1 of the batch
TxInsert(p) ==
  /\ pc[p] = "tx_ins"
  /\ Len(loc[p].tx) < Len(loc[p].batch)
  /\ \E dbFail \in BOOLEAN, t \in Readings :
       LET k == Len(loc[p].tx) + 1
           row == [id |-> <<"msg", loc[p].n, "", k>>,
                   conversationId |-> TxConv(loc[p]),
                   role |-> loc[p].batch[k],
                   content |-> <<loc[p].n, k>>,
                   createdAt |-> t]
           code == InsertMsgError(convs, TxConv(loc[p]), dbFail)
           st == StageRow(msgs, loc[p].tx, row)
       IN  IF code # "" THEN Fail(p, code) /\ UNCHANGED <<msgs, clock>>
           ELSE /\ msgs' = st.msgs
                /\ clock' = t
                /\ Goto(p, IF k = Len(loc[p].batch) THEN "tx_upd" ELSE "tx_ins",
                        [loc[p] EXCEPT !.tx = st.tx])
  /\ UNCHANGED <<users, convs, issued, nreq, hook, difyResponse, normalized, dlog>>

\* tx.conversation.update({data: {updatedAt: new Date()}}), the return of
\* the callback and the commit: the staged rows and the timestamp become
\* visible together
TxUpdate(p) ==
  /\ pc[p] = "tx_upd"
  /\ \E dbFail \in BOOLEAN, t \in Readings :
       LET cid == TxConv(loc[p])
           code == IF dbFail THEN "P1017"
                   ELSE IF ConvByPk(convs, cid) = {} THEN "P2025" ELSE ""
       IN  IF code # "" THEN Fail(p, code) /\ UNCHANGED <<msgs, convs, clock>>
           ELSE /\ msgs' = msgs \cup Rows(loc[p].tx)
                /\ convs' = {IF c.id = cid THEN [c EXCEPT !.updatedAt = t] ELSE c
                               : c \in convs}
                /\ clock' = t
                /\ Goto(p, "respond", [loc[p] EXCEPT !.tx = <<>>])
  /\ UNCHANGED <<users, issued, nreq, hook, difyResponse, normalized, dlog>>

\* ---- deleteMessage (conversationService.js 280-308) under
\* ---- DELETE /v1/messages/:messageId (routes/messages.js 432-457)
\* prisma.message.findFirst({where: {id, conversation: {userId}}})
FindOwnedMessageAnyOwner(ms, cs, messageId, userId) ==
  {m \in ms : m.id = messageId}
FindOwnedMessage(ms, cs, messageId, userId) ==
  {m \in ms : /\ m.id = messageId
              /\ \E c \in cs : c.id = m.conversationId /\ c.userId = userId}

\* how the request relates to the message it names, for the record of what
\* callers saw
OwnersOf(ms, cs, messageId) ==
  {c.userId : c \in {d \in cs : \E m \in ms : m.id = messageId /\ m.conversationId = d.id}}
DeleteCase(ms, cs, messageId, userId) ==
  IF {m \in ms : m.id = messageId} = {} THEN "absent"
  ELSE IF userId \notin OwnersOf(ms, cs, messageId) THEN "foreign"
  ELSE "own"

DelFind(p) ==
  /\ pc[p] = "del_find"
  /\ \E dbFail \in BOOLEAN :
       LET found == FindOwnedMessage(msgs, convs, loc[p].target, loc[p].user.id)
           case == DeleteCase(msgs, convs, loc[p].target, loc[p].user.id)
       IN  IF dbFail THEN Fail(p, "P1017") /\ UNCHANGED dlog
           ELSE IF found = {}
             THEN /\ Fail(p, "Message not found or unauthorized")
                  /\ dlog' = dlog \cup
                       {<<case, ErrorResponse("delete", "Message not found or unauthorized")>>}
             ELSE /\ \E m \in found : Goto(p, "del_delete", [loc[p] EXCEPT !.msg = m])
                  /\ UNCHANGED dlog
  /\ UNCHANGED <<users, convs, msgs, clock, issued, nreq, hook, difyResponse, normalized>>

\* prisma.message.delete({where: {id}}): P2025 when the row is gone
DelDelete(p) ==
  /\ pc[p] = "del_delete"
  /\ \E dbFail \in BOOLEAN :
       IF dbFail THEN Fail(p, "P1017") /\ UNCHANGED msgs
       ELSE IF {m \in msgs : m.id = loc[p].target} = {}
         THEN Fail(p, "P2025") /\ UNCHANGED msgs
       ELSE /\ msgs' = {m \in msgs : m.id # loc[p].target}
            /\ Goto(p, "del_touch", loc[p])
  /\ UNCHANGED <<users, convs, clock, issued, nreq, hook, difyResponse, normalized, dlog>>

\* updateConversationTimestamp(message.conversationId)
DelTouch(p) ==
  /\ pc[p] = "del_touch"
  /\ \E dbFail \in BOOLEAN, t \in Readings :
       LET cid == loc[p].msg.conversationId
       IN  IF dbFail THEN Fail(p, "P1017") /\ UNCHANGED <<convs, clock>>
           ELSE IF ConvByPk(convs, cid) = {}
             THEN Fail(p, "P2025") /\ UNCHANGED <<convs, clock>>
           ELSE /\ convs' = {IF c.id = cid THEN [c EXCEPT !.updatedAt = t] ELSE c
                               : c \in convs}
                /\ clock' = t
                /\ Goto(p, "respond", loc[p])
  /\ UNCHANGED <<users, msgs, issued, nreq, hook, difyResponse, normalized, dlog>>

\* ---- POST /v1/messages/pair (routes/messages.js 391-426)
\* getConversationById (part_025 181-212): findFirst over
\* OR [{id: param}, {conversationId: param}]
GetConversationById(cs, param) ==
  {c \in cs : c.id = param \/ c.conversationId = param}

PairGet(p) ==
  /\ pc[p] = "pair_get"
  /\ \E dbFail \in BOOLEAN :
       LET found == GetConversationById(convs, loc[p].ext)
       IN  IF ~loc[p].valid
             THEN Send(p, Resp(400, "Missing required fields", "VALIDATION_ERROR"))
           ELSE IF dbFail THEN Fail(p, "P1017")
           ELSE IF found = {} THEN Send(p, Resp(404, "Conversation not found", ""))
           ELSE \E c \in found :
                  IF c.userId # loc[p].user.id
                    THEN Send(p, Resp(403, "Access denied to this conversation", ""))
                    ELSE Goto(p, IF loc[p].kind = "single" THEN "msg_create" ELSE "tx_ins",
                            [loc[p] EXCEPT !.conv = c])
  /\ UNCHANGED <<users, convs, msgs, clock, issued, nreq, hook, difyResponse,
                 normalized, dlog>>

\* ---- POST /v1/messages (routes/messages.js 342-385) and addMessage
\* ---- (conversationService.js 162-190): two statements, no transaction
\* prisma.message.create
MsgCreate(p) ==
  /\ pc[p] = "msg_create"
  /\ \E dbFail \in BOOLEAN, t \in Readings :
       LET row == [id |-> <<"msg", loc[p].n, "", 1>>,
                   conversationId |-> TxConv(loc[p]),
                   role |-> loc[p].batch[1],
                   content |-> <<loc[p].n, 1>>,
                   createdAt |-> t]
           code == InsertMsgError(convs, TxConv(loc[p]), dbFail)
       IN  IF code # "" THEN Fail(p, code) /\ UNCHANGED <<msgs, clock>>
           ELSE /\ msgs' = msgs \cup {row}
                /\ clock' = t
                /\ Goto(p, "msg_touch", loc[p])
  /\ UNCHANGED <<users, convs, issued, nreq, hook, difyResponse, normalized, dlog>>

\* updateConversationTimestamp(conversationId)
MsgTouch(p) ==
  /\ pc[p] = "msg_touch"
  /\ \E dbFail \in BOOLEAN, t \in Readings :
       LET cid == TxConv(loc[p])
           code == IF dbFail THEN "P1017"
                   ELSE IF ConvByPk(convs, cid) = {} THEN "P2025" ELSE ""
       IN  IF code # "" THEN Fail(p, code) /\ UNCHANGED <<convs, clock>>
           ELSE /\ convs' = {IF c.id = cid THEN [c EXCEPT !.updatedAt = t] ELSE c
                               : c \in convs}
                /\ clock' = t
                /\ Goto(p, "respond", loc[p])
  /\ UNCHANGED <<users, msgs, issued, nreq, hook, difyResponse, normalized, dlog>>

\* ---- getUserConversations (conversationService.js 111-129):
\* ---- findMany({where: {userId}, orderBy: {updatedAt: 'desc'}})
\* the arrays the statement can return: rows with equal updated_at come in
\* whatever order the store produces them
Latest(rows) == {c \in rows : \A o \in rows : c.updatedAt >= o.updatedAt}
RECURSIVE FindManyByRecency(_)
FindManyByRecency(rows) ==
  IF rows = {} THEN {<<>>}
  ELSE UNION {{<<c>> \o rest : rest \in FindManyByRecency(rows \ {c})}
                : c \in Latest(rows)}

\* one call of getUserConversations; the response notes the user as `sid`
GetUserConversations(max) ==
  /\ nreq < max
  /\ \E u \in users :
       \E conversations \in FindManyByRecency(ConvsOfUsers(convs, {u.id})) :
         resp' = [RespConv(200, "conversations", NoId, u.id)
                    EXCEPT !.kind = "convs", !.list = conversations]
  /\ nreq' = nreq + 1
  /\ UNCHANGED <<users, convs, msgs, clock, issued, pc, loc, hook, dlog, difyResponse,
                 normalized>>

\* the keys a caller can name a conversation by: a primary key, an external
\* session id, or a key no conversation has
ConvKeys == {c.id : c \in convs} \cup {c.conversationId : c \in convs}
            \cup {Id("cnv", 99)}

\* one call of getConversationById with a key of a stored conversation or a
\* key no conversation has: findFirst has no orderBy, so of several matching
\* rows it returns any one; null (NoId) when none matches.  The response
\* notes the parameter as `sid` and the row returned as `conv`.
GetById(max) ==
  /\ nreq < max
  /\ \E param \in ConvKeys :
       LET found == GetConversationById(convs, param)
       IN  \E conversation \in IF found = {} THEN {NoConv} ELSE found :
             resp' = [RespConv(200, "conversation", conversation.id, param)
                        EXCEPT !.kind = "getById"]
  /\ nreq' = nreq + 1
  /\ UNCHANGED <<users, convs, msgs, clock, issued, pc, loc, hook, dlog, difyResponse,
                 normalized>>

\* ---- getMessages (conversationService.js 201-226):
\* ---- findMany({where: {conversationId}, orderBy: {createdAt: orderBy}})
\* ORDER BY created_at alone: rows with equal created_at come in whatever
\* order the store produces them.  The arrays the statement can return:
First(rows, order) ==
  {m \in rows : \A o \in rows : IF order = "asc" THEN m.createdAt <= o.createdAt
                                                 ELSE m.createdAt >= o.createdAt}
RECURSIVE FindManyOrdered(_, _)
FindManyOrdered(rows, order) ==
  IF rows = {} THEN {<<>>}
  ELSE UNION {{<<m>> \o rest : rest \in FindManyOrdered(rows \ {m}, order)}
                : m \in First(rows, order)}

\* one call of getMessages for a stored conversation, fewer rows than `take`
GetMessages(max, orders) ==
  /\ nreq < max
  /\ \E c \in convs, orderBy \in orders :
       \E messages \in FindManyOrdered(MsgsOf(msgs, c.id), orderBy) :
         resp' = [RespConv(200, "messages", c.id, NoId)
                    EXCEPT !.kind = "list", !.order = orderBy, !.list = messages]
  /\ nreq' = nreq + 1
  /\ UNCHANGED <<users, convs, msgs, clock, issued, pc, loc, hook, dlog, difyResponse,
                 normalized>>

\* ---- POST and GET /:conversationId/messages (routes/messages.js 80-330):
\* the routes answer for conversations of the store and for sessions that
\* only the external AI service knows
\* getConversationById(conversationId) inside try/catch: a rejected lookup
\* and a lookup that finds no row both leave `conversation` null, and the
\* request goes the public way; a row that is found goes on to the
\* authenticated branch
IdLookup(p) ==
  /\ pc[p] = "id_lookup"
  /\ \E dbFail \in BOOLEAN :
       LET found == IF dbFail THEN {} ELSE GetConversationById(convs, loc[p].ext)
       IN  IF found # {}
             THEN \E c \in found :
                    Goto(p, "gu_find", [loc[p] EXCEPT !.conv = c])
           ELSE IF loc[p].kind = "listing"
             THEN Send(p, [RespConv(200, "public", NoId, loc[p].ext)
                             EXCEPT !.err = IF dbFail THEN "P1017" ELSE ""])
           ELSE IF loc[p].query # "ok"
             THEN Send(p, [Resp(400, "BAD_REQUEST", "ValidationError")
                             EXCEPT !.sid = loc[p].ext])
           ELSE Goto(p, "anon_dify",
                     [loc[p] EXCEPT !.kind = "public", !.sent = loc[p].ext])
  /\ UNCHANGED <<users, convs, msgs, clock, issued, nreq, hook, difyResponse,
                 normalized, dlog>>

\* the authenticated branch of the POST once the user is known: the body's
\* fields, then conversation.userId !== user.id
IdOwn(p) ==
  /\ pc[p] = "id_own"
  /\ IF ~loc[p].valid
       THEN Send(p, Resp(400, "Missing required fields", "VALIDATION_ERROR"))
     ELSE IF loc[p].conv.userId # loc[p].user.id
       THEN Send(p, Resp(403, "Access denied to this conversation", ""))
     ELSE Goto(p, "tx_ins", loc[p])
  /\ UNCHANGED <<users, convs, msgs, clock, issued, nreq, hook, difyResponse,
                 normalized, dlog>>

\* the authenticated branch of the GET: the ownership check, then
\* getMessages(conversationId, ...) with the key of the request
ListRead(p) ==
  /\ pc[p] = "list_read"
  /\ IF loc[p].conv.userId # loc[p].user.id
       THEN Send(p, Resp(403, "Access denied to this conversation", ""))
     ELSE \E dbFail \in BOOLEAN :
            IF dbFail THEN Fail(p, "P1017")
            ELSE \E messages \in FindManyOrdered(MsgsOf(msgs, loc[p].ext), "asc") :
                   Send(p, [RespConv(200, "messages", loc[p].conv.id, loc[p].ext)
                              EXCEPT !.order = "asc", !.list = messages])
  /\ UNCHANGED <<users, convs, msgs, clock, issued, nreq, hook, difyResponse,
                 normalized, dlog>>

\* ------------------------------------------------------------ new requests
\* A request of a route may start while fewer than `max` requests have been
\* started; `auths` are the identities that send it.  Request slots are
\* interchangeable: a new request takes the first free one.
Free(p) == pc[p] = "idle" /\ \A q \in Procs : q < p => pc[q] # "idle"

Start(p, l) ==
  /\ pc' = [pc EXCEPT ![p] = "gu_find"]
  /\ loc' = [loc EXCEPT ![p] = l]
  /\ resp' = NoResp

Reject(p, kind, r) ==
  /\ resp' = [r EXCEPT !.kind = kind]
  /\ UNCHANGED <<pc, loc>>

\* APP_ID_MAP (index.js 135-141): the topics the turn endpoint has an app for
AppTopics == {"income", "debt", "expenses", "savings", "chat"}

\* the shapes of req.body.query: a string with text, no query, '', a string
\* of whitespace, and a value that is not a string (a number, an object)
Queries == {"ok", "missing", "empty", "blank", "notString"}

\* what a request gets whose async handler threw outside its try block: the
\* promise of the handler rejects, and depending on the Express release the
\* rejection reaches the error middleware (index.js 589-607: 500) or nobody,
\* and then no response is ever sent (status 0)
Thrown(code) == {Resp(500, "Internal server error", code), Resp(0, "", code)}

\* POST /v1/conversations/:type.  (req.body.query || '').trim() is ''
\* for a missing, empty or blank query and throws a TypeError, before the
\* try block, for a value that is not a string.
StartTurn(p, max, auths, topics, queries) ==
  /\ Free(p) /\ nreq < max
  /\ \E a \in auths, topic \in topics, query \in queries :
       IF query = "notString"
         THEN \E r \in Thrown("TypeError") : Reject(p, "turn", [r EXCEPT !.query = query])
       ELSE IF query # "ok"
         THEN Reject(p, "turn", [Resp(400, "Missing or invalid input: query", "")
                                   EXCEPT !.query = query])
       ELSE IF topic \notin AppTopics
         THEN Reject(p, "turn", Resp(500, "Missing Dify App ID", ""))
       ELSE Start(p, [NoLoc EXCEPT !.kind = "turn", !.n = nreq + 1, !.auth = a,
                                   !.topic = topic, !.query = query,
                                   !.batch = <<"user", "assistant">>])
  /\ nreq' = nreq + 1
  /\ UNCHANGED <<users, convs, msgs, clock, issued, hook, difyResponse, normalized, dlog>>

\* POST /v1/conversations {chatType, difyConversationId}: the caller may
\* supply any session id.  getUserByClerkId runs before the validation.
StartCreate(p, max, auths, chatTypes, exts) ==
  /\ Free(p) /\ nreq < max
  /\ \E a \in auths, ct \in chatTypes, ext \in exts :
       Start(p, [NoLoc EXCEPT !.kind = "create", !.n = nreq + 1, !.auth = a,
                              !.topic = ct, !.ext = ext])
  /\ nreq' = nreq + 1
  /\ UNCHANGED <<users, convs, msgs, clock, issued, hook, difyResponse, normalized, dlog>>

\* POST /v1/conversations/income; valid = the income data pass
\* validateIncomeData
StartIncome(p, max, auths, valids) ==
  /\ Free(p) /\ nreq < max
  /\ \E a \in auths, valid \in valids :
       Start(p, [NoLoc EXCEPT !.kind = "income", !.n = nreq + 1, !.auth = a,
                              !.valid = valid, !.topic = "INCOME",
                              !.batch = <<"user", "assistant">>])
  /\ nreq' = nreq + 1
  /\ UNCHANGED <<users, convs, msgs, clock, issued, hook, difyResponse, normalized, dlog>>

\* POST /v1/messages/pair {conversationId, userMessage, botResponse}; valid =
\* the three fields are present
StartPair(p, max, auths) ==
  /\ Free(p) /\ nreq < max
  /\ \E a \in auths, key \in ConvKeys, valid \in BOOLEAN :
       Start(p, [NoLoc EXCEPT !.kind = "pair", !.n = nreq + 1, !.auth = a,
                              !.valid = valid, !.ext = key,
                              !.batch = <<"user", "assistant">>])
  /\ nreq' = nreq + 1
  /\ UNCHANGED <<users, convs, msgs, clock, issued, hook, difyResponse, normalized, dlog>>

\* POST /v1/messages {conversationId, sender, content}; valid = the three
\* fields are present and sender is USER or BOT
StartSingle(p, max, auths) ==
  /\ Free(p) /\ nreq < max
  /\ \E a \in auths, key \in ConvKeys, valid \in BOOLEAN :
       Start(p, [NoLoc EXCEPT !.kind = "single", !.n = nreq + 1, !.auth = a,
                              !.valid = valid, !.ext = key, !.batch = <<"user">>])
  /\ nreq' = nreq + 1
  /\ UNCHANGED <<users, convs, msgs, clock, issued, hook, dlog, difyResponse, normalized>>

\* POST ("byid") or GET ("listing") /:conversationId/messages; valid = the
\* POST's body has userMessage and botResponse, query = its query field
StartById(p, max, auths, kinds, queries) ==
  /\ Free(p) /\ nreq < max
  /\ \E a \in auths, key \in ConvKeys, kind \in kinds, query \in queries,
        valid \in BOOLEAN :
       /\ pc' = [pc EXCEPT ![p] = "id_lookup"]
       /\ loc' = [loc EXCEPT ![p] =
                    [NoLoc EXCEPT !.kind = kind, !.n = nreq + 1, !.auth = a, !.ext = key,
                                  !.query = query, !.valid = valid,
                                  !.batch = <<"user", "assistant">>]]
       /\ resp' = NoResp
  /\ nreq' = nreq + 1
  /\ UNCHANGED <<users, convs, msgs, clock, issued, hook, dlog, difyResponse, normalized>>

\* DELETE /v1/messages/:messageId for a stored message or for an id no
\* message has
StartDelete(p, max, auths) ==
  /\ Free(p) /\ nreq < max
  /\ \E a \in auths, target \in {m.id : m \in msgs} \cup {<<"msg", 99, "", 0>>} :
       Start(p, [NoLoc EXCEPT !.kind = "delete", !.n = nreq + 1, !.auth = a,
                              !.target = target])
  /\ nreq' = nreq + 1
  /\ UNCHANGED <<users, convs, msgs, clock, issued, hook, difyResponse, normalized, dlog>>

\* GET /v1/user/profile: lazy provisioning alone
StartProfile(p, max, auths) ==
  /\ Free(p) /\ nreq < max
  /\ \E a \in auths :
       Start(p, [NoLoc EXCEPT !.kind = "profile", !.n = nreq + 1, !.auth = a])
  /\ nreq' = nreq + 1
  /\ UNCHANGED <<users, convs, msgs, clock, issued, hook, difyResponse, normalized, dlog>>

\* ---- anonymous turns: POST /v1/dify/debt/analyze (part_019 297-387) and
\* ---- POST /v1/conversations/debt (part_018 53-148); no user, no row
\* analyze validates the query and sends conversationId || null
StartAnalyze(p, max, queries, sids) ==
  /\ Free(p) /\ nreq < max
  /\ \E query \in queries, sid \in sids :
       IF query # "ok"
         THEN Reject(p, "analyze", [Resp(400, "BAD_REQUEST", "ValidationError")
                                      EXCEPT !.query = query])
         ELSE /\ pc' = [pc EXCEPT ![p] = "anon_dify"]
              /\ loc' = [loc EXCEPT ![p] = [NoLoc EXCEPT !.kind = "analyze", !.n = nreq + 1,
                                                         !.query = query, !.sent = sid]]
              /\ resp' = NoResp
  /\ nreq' = nreq + 1
  /\ UNCHANGED <<users, convs, msgs, clock, issued, hook, dlog, difyResponse, normalized>>

\* the debt route does not validate: query || "I want to discuss my debt
\* situation ..." is sent, always with conversation_id null
StartDebt(p, max, queries) ==
  /\ Free(p) /\ nreq < max
  /\ \E query \in queries :
       /\ pc' = [pc EXCEPT ![p] = "anon_dify"]
       /\ loc' = [loc EXCEPT ![p] = [NoLoc EXCEPT !.kind = "debt", !.n = nreq + 1,
                                                  !.query = query]]
       /\ resp' = NoResp
  /\ nreq' = nreq + 1
  /\ UNCHANGED <<users, convs, msgs, clock, issued, hook, dlog, difyResponse, normalized>>

\* axios.post(..., {headers, timeout: 30000}) returned or rejected before
\* the timeout; "reset" = a failure with a code the catch block does not
\* name (ECONNRESET, EAI_AGAIN, ...)
AnonDify(p, outcomes, answers) ==
  /\ pc[p] = "anon_dify"
  /\ LET sent == loc[p].sent
     IN  \E outcome \in outcomes :
           CASE outcome = "http" -> Fail(p, "upstream") /\ UNCHANGED issued
             [] outcome = "net" -> Fail(p, "ECONNREFUSED") /\ UNCHANGED issued
             [] outcome = "reset" -> Fail(p, "ECONNRESET") /\ UNCHANGED issued
             [] OTHER ->
                  \E sid \in ExtIds, t \in answers :
                    /\ IF sent = NoId THEN sid \notin issued ELSE sid = sent /\ sid \in issued
                    /\ issued' = issued \cup {sid}
                    /\ Goto(p, "respond",
                            [loc[p] EXCEPT !.data = Data(t, Undefined, Undefined, sid, NoId)])
  /\ UNCHANGED <<users, convs, msgs, clock, nreq, hook, dlog, difyResponse, normalized>>

\* the 30 s of the call's timeout passed: axios rejects with ECONNABORTED
AnonTimeout(p) ==
  /\ pc[p] = "anon_dify"
  /\ Fail(p, "ECONNABORTED")
  /\ UNCHANGED <<users, convs, msgs, clock, issued, nreq, hook, dlog, difyResponse,
                 normalized>>

\* ------------------------------------------------------------ specifications
Requests ==
  /\ clock = 0 /\ nreq = 0
  /\ pc = [p \in Procs |-> "idle"]
  /\ loc = [p \in Procs |-> NoLoc]
  /\ resp = NoResp
  /\ hook = NoHook
  /\ dlog = {}

\* texts the external AI service answers a turn with: prose, and a fenced
\* JSON payload with flags and an answer
Prose == String(<<"a">>, JsonNull)
Fenced == String(<<"F", "J", "F">>, JsonObject("true", "false", "string"))

Control ==
  /\ Requests
  /\ difyResponse = NoData
  /\ normalized = NoNormalized

\* the server right after startup on an empty database
Init ==
  /\ users = {} /\ convs = {} /\ msgs = {} /\ issued = {}
  /\ Control

\* The server started on a database in which every identity is provisioned
\* and the first identity may already have had a turn on INCOME: a
\* conversation whose session id is still the sentinel or was patched to an
\* external id of either format, with the turn's message pair.
SeedUsers == {[id |-> Id("usr", 0 - a[2]), authId |-> a, email |-> "", firstName |-> ""]
                : a \in AuthIds}
SeedConv(sid) ==
  [id |-> Id("cnv", 0), userId |-> Id("usr", 0 - 1), chatType |-> "INCOME",
   conversationId |-> sid, updatedAt |-> 0]
SeedMsgs ==
  {[id |-> <<"msg", 0, "", k>>, conversationId |-> Id("cnv", 0),
    role |-> <<"user", "assistant">>[k], content |-> <<0, k>>, createdAt |-> 0]
     : k \in 1..2}
SeedSids == {Sentinel(Id("usr", 0 - 1), "income", 0), Id("uuid", 1), Id("dify-", 1)}

\* every identity provisioned, no conversation yet
InitUsers ==
  /\ users = SeedUsers /\ convs = {} /\ msgs = {} /\ issued = {}
  /\ Control

InitStore ==
  /\ users = SeedUsers
  /\ \/ convs = {} /\ msgs = {} /\ issued = {}
     \/ \E sid \in SeedSids :
          /\ convs = {SeedConv(sid)}
          /\ msgs = SeedMsgs
          /\ issued = {sid} \cap ExtIds
  /\ Control

DeletedEvents == {Event("user.deleted", "ok", a, "", "", "") : a \in AuthIds}

\* the conversation store: the three routes that call
\* findOrCreateConversation, racing with each other for the conversations of
\* one provisioned user
NextConv ==
  \/ \E p \in Procs : StartTurn(p, MaxTurns, {Id("clerk", 1)}, {"income"}, {"ok", "blank"})
  \/ \E p \in Procs : StartCreate(p, MaxReqs, {Id("clerk", 1)}, {"INCOME", "DEBT"}, {NoId})
  \/ \E p \in Procs : StartIncome(p, MaxReqs, {Id("clerk", 1)}, {TRUE})
  \/ \E p \in Procs : GuFind(p)
  \/ \E p \in Procs : FocFind(p)
  \/ \E p \in Procs : FocCreate(p)
  \/ \E p \in Procs : IncGet(p)
  \/ \E p \in Procs : Dify(p, {"ok", "net"}, {Prose})
  \/ \E p \in Procs : Patch(p)
  \/ \E p \in Procs : TxInsert(p)
  \/ \E p \in Procs : TxUpdate(p)

Spec == InitUsers /\ [][NextConv]_vars

\* the session orchestrator: turns of either user on any topic, with every
\* behaviour of the external AI service, and conversations created with a
\* caller-supplied session id
NextTurn ==
  \/ \E p \in Procs : StartTurn(p, MaxReqs, AuthIds, {"income", "chat", "zzz"}, {"ok", "blank"})
  \/ \E p \in Procs : StartCreate(p, MaxReqs, AuthIds, {"INCOME", "bogus"}, {NoId, Id("uuid", 1)})
  \/ \E p \in Procs : GuFind(p)
  \/ \E p \in Procs : FocFind(p)
  \/ \E p \in Procs : FocCreate(p)
  \/ \E p \in Procs : Dify(p, {"ok", "noSid", "http", "net"}, {Prose})
  \/ \E p \in Procs : Patch(p)
  \/ \E p \in Procs : TxInsert(p)
  \/ \E p \in Procs : TxUpdate(p)

SpecTurn == InitUsers /\ [][NextTurn]_vars

\* multi-row appends: POST /pair and the income route of one user, on a store
\* that may already hold a conversation
NextTx ==
  \/ \E p \in Procs : StartPair(p, MaxReqs, {Id("clerk", 1)})
  \/ \E p \in Procs : StartIncome(p, MaxReqs, {Id("clerk", 1)}, BOOLEAN)
  \/ \E p \in Procs : GuFind(p)
  \/ \E p \in Procs : FocFind(p)
  \/ \E p \in Procs : FocCreate(p)
  \/ \E p \in Procs : IncGet(p)
  \/ \E p \in Procs : PairGet(p)
  \/ \E p \in Procs : TxInsert(p)
  \/ \E p \in Procs : TxUpdate(p)

SpecTx == InitStore /\ [][NextTx]_vars

\* turns of one user on every topic the endpoint has an app for, and on one
\* it has none for
NextTopics ==
  \/ \E p \in Procs :
       StartTurn(p, MaxReqs, {Id("clerk", 1)}, AppTopics \cup {"zzz"}, {"ok"})
  \/ \E p \in Procs : GuFind(p)
  \/ \E p \in Procs : FocFind(p)
  \/ \E p \in Procs : FocCreate(p)
  \/ \E p \in Procs : Dify(p, {"ok", "net"}, {Prose})
  \/ \E p \in Procs : Patch(p)
  \/ \E p \in Procs : TxInsert(p)
  \/ \E p \in Procs : TxUpdate(p)

SpecTopics == InitUsers /\ [][NextTopics]_vars

\* racing appends of one user: pairs, batches and single messages
NextAppend ==
  \/ NextTx
  \/ \E p \in Procs : StartSingle(p, MaxReqs, {Id("clerk", 1)})
  \/ \E p \in Procs : MsgCreate(p)
  \/ \E p \in Procs : MsgTouch(p)

SpecAppend == InitStore /\ [][NextAppend]_vars

\* deletes of messages by their owner, by the other user, and of message ids
\* that do not exist
NextDelete ==
  \/ \E p \in Procs : StartDelete(p, MaxReqs, AuthIds)
  \/ \E p \in Procs : GuFind(p)
  \/ \E p \in Procs : DelFind(p)
  \/ \E p \in Procs : DelDelete(p)
  \/ \E p \in Procs : DelTouch(p)

SpecDelete == InitStore /\ [][NextDelete]_vars

\* the message store as a whole: appends by pair, by batch and singly,
\* deletes, and `deleted` deliveries that cascade
NextMsg ==
  \/ \E p \in Procs : StartPair(p, MaxReqs, AuthIds)
  \/ \E p \in Procs : StartSingle(p, MaxReqs, AuthIds)
  \/ \E p \in Procs : StartIncome(p, MaxReqs, AuthIds, BOOLEAN)
  \/ \E p \in Procs : StartDelete(p, MaxReqs, AuthIds)
  \/ \E p \in Procs : GuFind(p)
  \/ \E p \in Procs : GuCreate(p, {""}, {""})
  \/ \E p \in Procs : FocFind(p)
  \/ \E p \in Procs : FocCreate(p)
  \/ \E p \in Procs : IncGet(p)
  \/ \E p \in Procs : PairGet(p)
  \/ \E p \in Procs : MsgCreate(p)
  \/ \E p \in Procs : MsgTouch(p)
  \/ \E p \in Procs : TxInsert(p)
  \/ \E p \in Procs : TxUpdate(p)
  \/ \E p \in Procs : DelFind(p)
  \/ \E p \in Procs : DelDelete(p)
  \/ \E p \in Procs : DelTouch(p)
  \/ Deliver("js", DeletedEvents, MaxReqs)

SpecMsg == InitStore /\ [][NextMsg]_vars

\* the identity reconciler: deliveries to either build of the webhook and
\* lazy provisioning
NextIdentity ==
  \/ Deliver("js", AllEvents, MaxIdReqs)
  \/ Deliver("ts", AllEvents, MaxIdReqs)
  \/ \E p \in Procs : StartProfile(p, MaxIdReqs, AuthIds)
  \/ \E p \in Procs : GuFind(p)
  \/ \E p \in Procs : GuCreate(p, {"", "e2"}, FirstNames)

SpecIdentity == Init /\ [][NextIdentity]_vars

\* lookups by either key among conversations that callers create with and
\* without a session id of their own choice, which may be any string, the
\* primary key of a stored conversation included
NextLookup ==
  \/ \E p \in Procs :
       StartCreate(p, MaxReqs, AuthIds, {"INCOME", "DEBT"}, {NoId} \cup {c.id : c \in convs})
  \/ \E p \in Procs : GuFind(p)
  \/ \E p \in Procs : FocFind(p)
  \/ \E p \in Procs : FocCreate(p)
  \/ GetById(MaxReqs)

SpecLookup == InitStore /\ [][NextLookup]_vars

\* one user's conversations: a second one is created, messages are appended
\* to either one singly and in pairs, and the conversations are listed
NextRecency ==
  \/ \E p \in Procs : StartCreate(p, MaxReqs, {Id("clerk", 1)}, {"DEBT"}, {NoId})
  \/ \E p \in Procs : StartSingle(p, MaxReqs, {Id("clerk", 1)})
  \/ \E p \in Procs : StartPair(p, MaxReqs, {Id("clerk", 1)})
  \/ \E p \in Procs : GuFind(p)
  \/ \E p \in Procs : FocFind(p)
  \/ \E p \in Procs : FocCreate(p)
  \/ \E p \in Procs : PairGet(p)
  \/ \E p \in Procs : MsgCreate(p)
  \/ \E p \in Procs : MsgTouch(p)
  \/ \E p \in Procs : TxInsert(p)
  \/ \E p \in Procs : TxUpdate(p)
  \/ GetUserConversations(MaxReqs)

SpecRecency == InitStore /\ [][NextRecency]_vars

\* the routes that name a conversation by a key, used by both users: a
\* conversation is created with a session id of the caller's choice, and
\* messages are appended and listed by key
NextByKey ==
  \/ \E p \in Procs :
       StartCreate(p, MaxReqs, AuthIds, {"INCOME"}, {NoId} \cup {c.id : c \in convs})
  \/ \E p \in Procs : StartPair(p, MaxReqs, AuthIds)
  \/ \E p \in Procs : StartById(p, MaxReqs, AuthIds, {"byid", "listing"}, {"ok", "blank"})
  \/ \E p \in Procs : IdLookup(p)
  \/ \E p \in Procs : GuFind(p)
  \/ \E p \in Procs : FocFind(p)
  \/ \E p \in Procs : FocCreate(p)
  \/ \E p \in Procs : PairGet(p)
  \/ \E p \in Procs : IdOwn(p)
  \/ \E p \in Procs : ListRead(p)
  \/ \E p \in Procs : TxInsert(p)
  \/ \E p \in Procs : TxUpdate(p)
  \/ \E p \in Procs : AnonDify(p, {"ok", "http"}, {Prose})

SpecByKey == InitStore /\ [][NextByKey]_vars

\* listings of a conversation between appends of message pairs
NextList ==
  \/ \E p \in Procs : StartPair(p, MaxReqs, {Id("clerk", 1)})
  \/ \E p \in Procs : GuFind(p)
  \/ \E p \in Procs : PairGet(p)
  \/ \E p \in Procs : TxInsert(p)
  \/ \E p \in Procs : TxUpdate(p)
  \/ GetMessages(MaxReqs, {"asc", "desc"})

SpecList == InitStore /\ [][NextList]_vars

\* the two regimes of a turn side by side: authenticated turns of one user
\* on one topic and anonymous turns that round-trip the session id, with
\* every shape of query, every behaviour of the external AI service and both
\* kinds of answer text
NextRegimes ==
  \/ \E p \in Procs : StartTurn(p, MaxReqs, {Id("clerk", 1)}, {"income"}, Queries)
  \/ \E p \in Procs : StartAnalyze(p, MaxReqs, Queries, {NoId} \cup ExtIds)
  \/ \E p \in Procs : GuFind(p)
  \/ \E p \in Procs : FocFind(p)
  \/ \E p \in Procs : FocCreate(p)
  \/ \E p \in Procs : Dify(p, {"ok", "noSid", "http", "net"}, {Prose, Fenced})
  \/ \E p \in Procs : Patch(p)
  \/ \E p \in Procs : TxInsert(p)
  \/ \E p \in Procs : TxUpdate(p)
  \/ \E p \in Procs : AnonDify(p, {"ok", "http", "net", "reset"}, {Prose, Fenced})
  \/ \E p \in Procs : AnonTimeout(p)

SpecRegimes == InitUsers /\ [][NextRegimes]_vars

\* every route that takes a query: the two regimes and the anonymous route
\* that opens a debt conversation
NextQueries ==
  \/ NextRegimes
  \/ \E p \in Procs : StartDebt(p, MaxReqs, Queries)

SpecQueries == InitUsers /\ [][NextQueries]_vars

\* The two regimes with the scheduling the code relies on: the event loop resumes
\* every handler whose await has settled, the store settles every statement
\* (with a result or an error), and the timer of a call made with a timeout
\* fires.  Nothing obliges the external AI service to answer.
Step(p) ==
  \/ GuFind(p) \/ FocFind(p) \/ FocCreate(p) \/ Patch(p) \/ TxInsert(p) \/ TxUpdate(p)
  \/ AnonTimeout(p)

SpecRegimesFair == SpecRegimes /\ \A p \in Procs : WF_vars(Step(p))

\* the response normalizer alone: one answer of the external AI service,
\* normalized once
InitNormalizer ==
  /\ users = {} /\ convs = {} /\ msgs = {} /\ issued = {}
  /\ Requests
  /\ difyResponse \in DifyResponses
  /\ normalized = NoNormalized

NextNormalizer == Normalize

SpecNormalizer == InitNormalizer /\ [][NextNormalizer]_vars

\* ------------------------------------------------------------------ claims
\* the committed message rows that call (request) n wrote
RowsOfCall(ms, n) == {m \in ms : m.content[1] = n}

\* C1: in every reachable state there is at most one conversation row per
\* (userId, chatType) pair, whatever the interleaving of the create route,
\* the income route and the authenticated turn.
C1_OneConversationPerPair ==
  \A c1 \in convs, c2 \in convs :
    (c1.userId = c2.userId /\ c1.chatType = c2.chatType) => c1 = c2

\* a racing second create was refused by the pair constraint while the
\* winner's row is stored
C1_Witness ==
  /\ resp.err = "P2002(user_id,chat_type)"
  /\ convs # {}

\* C2: no caller of findOrCreate that loses the creation race for a (user,
\* chatType) pair has the duplicate-key error of the pair constraint
\* surfaced to it; it gets the winner's conversation instead.
C2_RaceLoserNeverSeesDuplicateKey ==
  resp.err # "P2002(user_id,chat_type)"

\* C3: addMessagePair and addMessages are all-or-nothing.  While a call's
\* transaction is open none of its rows is visible; when the call ends with
\* a failure none of its rows is stored and no conversation row changed;
\* when it ends with success exactly its two rows (user, then assistant) are
\* stored and its conversation carries the new timestamp; and no step ever
\* makes only a part of a call's rows visible.
C3_AllOrNothing ==
  [][/\ \A n \in 1..nreq' :
          Cardinality(RowsOfCall(msgs', n) \ RowsOfCall(msgs, n)) \in {0, 2}
     /\ \A p \in Procs :
          (loc[p].kind \in {"pair", "income"} /\ pc[p] \in {"tx_ins", "tx_upd"}) =>
            /\ pc'[p] \in {"tx_ins", "tx_upd"} => RowsOfCall(msgs', loc[p].n) = {}
            /\ (pc'[p] = "idle" /\ resp'.status # 201) =>
                 /\ RowsOfCall(msgs', loc[p].n) = {}
                 /\ msgs' = msgs /\ convs' = convs
            /\ (pc'[p] = "idle" /\ resp'.status = 201) =>
                 /\ {<<m.role, m.content[2]>> : m \in RowsOfCall(msgs', loc[p].n)}
                      = {<<"user", 1>>, <<"assistant", 2>>}
                 /\ \A m \in RowsOfCall(msgs', loc[p].n) :
                      m.conversationId = TxConv(loc[p])
                 /\ \A c \in ConvByPk(convs', TxConv(loc[p])) : c.updatedAt = clock'
                 /\ ConvByPk(convs', TxConv(loc[p])) # {}
    ]_vars

\* both inserts of a call have run inside its transaction and no row of the
\* call is visible in the table
C3_Witness ==
  \E p \in Procs :
    /\ loc[p].kind \in {"pair", "income"}
    /\ pc[p] = "tx_upd"
    /\ Len(loc[p].tx) = 2
    /\ RowsOfCall(msgs, loc[p].n) = {}

\* C4: a delete of a message that belongs to another user's conversation is
\* answered exactly like a delete of a message id that does not exist (the
\* 404 of the merged error, or the route's answer to an unreachable store),
\* the request ends there, and no message row and no conversation row
\* changes.
C4_ForeignLikeAbsent ==
  [][\A p \in Procs :
       ( /\ pc[p] = "del_find" /\ pc'[p] # "del_find"
         /\ DeleteCase(msgs, convs, loc[p].target, loc[p].user.id)
              \in {"absent", "foreign"} ) =>
         /\ pc'[p] = "idle"
         /\ msgs' = msgs /\ convs' = convs
         /\ \/ resp' = [ErrorResponse("delete", "Message not found or unauthorized")
                          EXCEPT !.kind = "delete"]
            \/ resp' = [ErrorResponse("delete", "P1017") EXCEPT !.kind = "delete"]
         /\ \A e1 \in dlog', e2 \in dlog' : e1[2] = e2[2]
    ]_vars

\* callers have seen the answer to a delete of another user's message and
\* the answer to a delete of a nonexistent message
C4_Witness ==
  /\ \E e \in dlog : e[1] = "foreign"
  /\ \E e \in dlog : e[1] = "absent"

C6_DeletedAbsentIsSuccess ==
  [][( /\ hook'.n # hook.n
       /\ hook'.sig /\ hook'.evt.shape = "ok" /\ ~hook'.dbFail
       /\ hook'.evt.type = "user.deleted"
       /\ UserByAuth(users, hook'.evt.id) = {} ) =>
       /\ hook'.resp.status = 200
       /\ users' = users
    ]_vars

\* the very first request a fresh server gets is a `deleted` delivery for an
\* identity it has never seen, and it is answered 200
C6_Witness ==
  /\ hook.n = 1
  /\ hook.sig /\ hook.evt.shape = "ok" /\ ~hook.dbFail
  /\ hook.evt.type = "user.deleted"
  /\ hook.resp.status = 200
  /\ users = {}

\* C7: a delivery that is unverifiable (a header missing, a signature that
\* fails verification) or malformed (a verified event of a handled type
\* without its data or without the external id) is answered with a 4xx.
C7_MalformedRejectedWith4xx ==
  ( /\ hook.n > 0
    /\ \/ ~hook.hdrs
       \/ ~hook.sig
       \/ /\ hook.evt.type \in {"user.created", "user.updated", "user.deleted"}
          /\ hook.evt.shape # "ok" ) =>
    hook.resp.status \in 400..499

\* C8: no request that lazily provisions its user is answered with the
\* unique violation of users.auth_id; a create that loses the race is
\* resolved, not reported.
C8_ProvisioningRaceNotReported ==
  resp.err # "P2002(auth_id)"

\* C9: when a first turn whose session got a real external id ends, either
\* the conversation stores that id and the turn's message pair is stored, or
\* neither is.
C9_PatchAndPairTogether ==
  [][\A p \in Procs :
       ( /\ loc[p].kind = "turn" /\ loc[p].isNew /\ loc[p].ext \in ExtIds
         /\ pc[p] \in {"patch", "tx_ins", "tx_upd"}
         /\ pc'[p] = "idle" ) =>
         ( (\E c \in ConvByPk(convs', loc[p].conv.id) : c.conversationId = loc[p].ext)
           <=> RowsOfCall(msgs', loc[p].n) # {} )
    ]_vars

\* C10: once a conversation stores a real external session id (one the
\* external AI service issued), no step replaces it, neither with a sentinel
\* nor with another external id.
C10_LinkedIsOneWay ==
  [][\A c \in convs :
       c.conversationId \in issued =>
         \A d \in ConvByPk(convs', c.id) : d.conversationId = c.conversationId
    ]_vars

\* C11: the normalizer's flags follow the parsed payload.  An explicit
\* boolean `valid` is the output's valid, otherwise valid is false; an
\* explicit boolean `ambiguous` is the output's ambiguous, otherwise an
\* explicit boolean `valid` makes ambiguous its negation, otherwise ambiguous
\* is true; and isValid always equals valid.
C11_FlagsFollowPayload ==
  normalized # NoNormalized =>
    LET o == normalized.outputs
    IN  /\ (o.valid = "true" => normalized.valid) /\ (o.valid = "false" => ~normalized.valid)
        /\ (o.valid \notin {"true", "false"} => ~normalized.valid)
        /\ (o.ambiguous = "true" => normalized.ambiguous)
        /\ (o.ambiguous = "false" => ~normalized.ambiguous)
        /\ (o.ambiguous \notin {"true", "false"} /\ o.valid = "true" => ~normalized.ambiguous)
        /\ (o.ambiguous \notin {"true", "false"} /\ o.valid = "false" => normalized.ambiguous)
        /\ (o.ambiguous \notin {"true", "false"} /\ o.valid \notin {"true", "false"}
              => normalized.ambiguous)
        /\ normalized.isValid = normalized.valid

\* a fenced payload with valid = true and no boolean `ambiguous` was
\* normalized: ambiguous is inferred false
C11_Witness ==
  /\ normalized # NoNormalized
  /\ difyResponse.answer.kind = "string"
  /\ difyResponse.answer.toks = <<"F", "J", "F">>
  /\ normalized.outputs.valid = "true"
  /\ normalized.outputs.ambiguous = "string"
  /\ normalized.valid /\ ~normalized.ambiguous

\* the value of a payload's `answer` property as a display text
AnswerValue(payload) ==
  IF payload.answer = "string" THEN String(<<"h">>, JsonNull)
  ELSE [kind |-> "null", toks |-> <<>>, payload |-> JsonNull]

\* C12: the display text is the payload's `answer` value when the text
\* (parsed directly, else through its first fenced block) yields a JSON
\* object with an `answer` key, and otherwise the input text with its code
\* fences removed; for plain prose with no embedded JSON the display text
\* is the input text exactly, with valid = false and ambiguous = true.
C12_DisplayText ==
  normalized # NoNormalized =>
    LET text == normalized.text
        payload == TryParseJsonFromText(text)
        prose == /\ text.kind = "string"
                 /\ \E i \in 1..Len(text.toks) : text.toks[i] = "a"
                 /\ \A i \in 1..Len(text.toks) : text.toks[i] \in {"a", "s"}
    IN  /\ (payload.kind = "object" /\ payload.answer # "absent")
              => normalized.answer = AnswerValue(payload)
        /\ ~(payload.kind = "object" /\ payload.answer # "absent")
              => normalized.answer.toks = Trim(ReplaceFences(text.toks))
        /\ prose => /\ normalized.answer = text
                    /\ ~normalized.valid /\ normalized.ambiguous

\* C13: an authenticated and an anonymous turn take the same path through
\* the external call and the normalizer: whichever regime answered, the body
\* reports the normalizer's flags, its display text and its session id for
\* the answer the AI service gave.
C13_SameNormalizationPath ==
  ( /\ resp.kind \in {"turn", "analyze"}
    /\ resp.status \in {200, 201}
    /\ resp.data # NoData ) =>
    LET n == NormalizeDifyResponse(resp.data)
    IN  /\ resp.reply.valid = Flag(n.valid)
        /\ resp.reply.isValid = Flag(n.isValid)
        /\ resp.reply.ambiguous = Flag(n.ambiguous)
        /\ resp.reply.answer = n.answer
        /\ n.conversation_id # NoId => resp.reply.conversation_id = n.conversation_id

\* C14: every failure of the external AI call (an upstream HTTP error, a
\* network failure, a timeout) is answered with the one "upstream
\* unavailable" outcome: status 502 and code UPSTREAM_ERROR, never the
\* upstream's status and body or the raw error.
C14_UniformUpstreamFailure ==
  resp.err \in {"upstream", "ECONNREFUSED", "ECONNRESET", "ECONNABORTED"} =>
    /\ resp.status = 502
    /\ resp.body = "UPSTREAM_ERROR"

\* C15: a turn whose query is malformed (missing, empty, blank, or not a
\* string) is answered with a validation error (4xx) in the step that
\* receives it: it never holds a request slot, so no external call is made
\* for it, and no user, conversation or message row changes.
C15_MalformedQueryRejectedFirst ==
  [][/\ \A p \in Procs : loc'[p].query \in {"", "ok"}
     /\ (nreq' # nreq /\ resp'.query \notin {"", "ok"}) =>
          /\ resp'.status \in 400..499
          /\ users' = users /\ convs' = convs /\ msgs' = msgs /\ issued' = issued
    ]_vars

\* C16: every turn that was accepted is eventually answered, also when the
\* external AI service never answers.
C16_EveryTurnAnswered ==
  \A p \in Procs : (pc[p] # "idle") ~> (pc[p] = "idle")

\* Array.prototype.reverse
Reverse(seq) == [i \in 1..Len(seq) |-> seq[Len(seq) + 1 - i]]

\* C17: an ascending listing returns the rows that one addMessages or
\* addMessagePair call wrote in the order of the call's input array, also
\* when they share one createdAt; and a descending listing of the same
\* rows is the exact reverse of the ascending one.
C17_ListingKeepsInputOrder ==
  [][/\ (resp'.kind = "list" /\ resp'.order = "asc") =>
          \A i \in 1..Len(resp'.list), j \in 1..Len(resp'.list) :
            (i < j /\ resp'.list[i].content[1] = resp'.list[j].content[1]) =>
              resp'.list[i].content[2] < resp'.list[j].content[2]
     /\ ( /\ resp.kind = "list" /\ resp.order = "asc"
          /\ resp'.kind = "list" /\ resp'.order = "desc"
          /\ resp'.conv = resp.conv /\ msgs' = msgs /\ nreq' # nreq ) =>
          resp'.list = Reverse(resp.list)
    ]_vars

\* C18: getById resolves both keys of every stored conversation to that
\* conversation, and a key that is neither a primary key nor an external
\* session id to null, whatever rows callers have created.
C18_DualKeyLookup ==
  resp.kind = "getById" =>
    /\ \A c \in convs :
         (resp.sid = c.id \/ resp.sid = c.conversationId) => resp.conv = c.id
    /\ (\A c \in convs : resp.sid # c.id /\ resp.sid # c.conversationId)
         => resp.conv = NoId

\* C19: every append that completes (addMessage, addMessagePair,
\* addMessages) leaves its conversation with the timestamp of the append,
\* and right after it every listing getUserConversations can return for the
\* owner has that conversation first.
C19_AppendedListedFirst ==
  [][\A p \in Procs :
       ( /\ pc[p] \in {"tx_upd", "msg_touch"}
         /\ pc'[p] = "idle" /\ resp'.status = 201 ) =>
         /\ \A c \in ConvByPk(convs', TxConv(loc[p])) : c.updatedAt = clock'
         /\ \A conversations \in FindManyByRecency(ConvsOfUsers(convs', {loc[p].user.id})) :
              conversations[1].id = TxConv(loc[p])
    ]_vars

\* the columns of one identity's rows that an event determines
FieldsOf(us, authId) ==
  {[email |-> u.email, firstName |-> u.firstName] : u \in UserByAuth(us, authId)}

\* what the last processed event alone says about its identity: no row after
\* `deleted`, the event's fields after `created` or `updated`
LastEventFields(impl, evt) ==
  IF evt.type = "user.deleted" THEN {}
  ELSE {[email |-> evt.email, firstName |-> EventName(impl, evt)]}

RowOwners(cs, rows) ==
  {c.userId : c \in {d \in cs : \E m \in rows : m.conversationId = d.id}}

\* C21: a listing or an append by an authenticated caller succeeds only on a
\* conversation of the caller: the rows a successful listing returns and the
\* rows a successful append commits belong to conversations the caller owns.
C21_OnlyOwnerReadsOrWrites ==
  [][\A p \in Procs :
       /\ ( pc[p] = "list_read" /\ pc'[p] = "idle" /\ resp'.status = 200 ) =>
            RowOwners(convs, Rows(resp'.list)) \subseteq {loc[p].user.id}
       /\ ( pc[p] = "tx_upd" /\ pc'[p] = "idle" /\ resp'.status = 201 ) =>
            RowOwners(convs', msgs' \ msgs) \subseteq {loc[p].user.id}
    ]_vars

\* C22: in every reachable state every message row references a stored
\* conversation and every conversation a stored user, whatever the
\* interleaving of appends, deletes, conversation creation and `deleted`
\* deliveries.
C22_NoOrphanRows ==
  /\ \A m \in msgs : ConvByPk(convs, m.conversationId) # {}
  /\ \A c \in convs : \E u \in users : u.id = c.userId

\* a `deleted` delivery has cascaded a user's conversations and their
\* messages away while an append to one of them, already past its ownership
\* check, has its insert still to come
C22_Witness ==
  /\ hook.evt.type = "user.deleted" /\ hook.resp.status = 200
  /\ UserByAuth(users, hook.evt.id) = {}
  /\ \E p \in Procs :
       /\ pc[p] \in {"tx_ins", "msg_create"}
       /\ loc[p].conv # NoConv
       /\ TxConv(loc[p]) = loc[p].conv.id
       /\ ConvByPk(convs, loc[p].conv.id) = {}
       /\ MsgsOf(msgs, loc[p].conv.id) = {}

\* an append call ends in this step: with success, or with a failure
Succeeds(p) == pc[p] # "idle" /\ pc'[p] = "idle" /\ resp'.status = 201
Fails(p) == pc[p] # "idle" /\ pc'[p] = "idle" /\ resp'.status # 201

\* no step removes a row, a call that succeeds has all its rows stored and a
\* call of one of `kinds` that fails has none: the rows of the table are the
\* rows it had plus those of the successful calls
RowsAreThoseOfSuccessfulCalls(kinds) ==
  /\ msgs \subseteq msgs'
  /\ \A p \in Procs :
       /\ (Succeeds(p) /\ loc[p].kind \in {"pair", "income", "single"}) =>
            Cardinality(RowsOfCall(msgs', loc[p].n)) = Len(loc[p].batch)
       /\ (Fails(p) /\ loc[p].kind \in kinds) => RowsOfCall(msgs', loc[p].n) = {}

\* C23: when appends to a conversation race (addMessagePair, addMessages,
\* addMessage), for every interleaving the rows stored are exactly the rows
\* of the calls that succeeded: none lost, none twice, none of a failed call.
C23_RacingAppendsAllPersisted ==
  [][RowsAreThoseOfSuccessfulCalls({"pair", "income", "single"})]_vars

\* C24: every topic the turn endpoint accepts resolves to a chat type of the
\* enum: a turn that got past the endpoint's checks asks the store for a
\* chat type in ChatTypeEnum, and its findOrCreateConversation is not
\* refused for the chat type.
C24_AcceptedTopicHasChatType ==
  /\ \A p \in Procs :
       loc[p].kind = "turn" => ToUpperCase(loc[p].topic) \in ChatTypeEnum
  /\ resp.kind = "turn" => resp.err # "PrismaClientValidationError"

\* C25: a turn on a conversation that still holds its sentinel sends no
\* session id to the external service, and a turn on a conversation that
\* holds a session id the service issued sends exactly that id.
C25_TurnSendsStoredSession ==
  [][\A p \in Procs :
       ( /\ pc[p] = "dify" /\ loc[p].kind = "turn"
         /\ pc'[p] \in {"patch", "tx_ins"} ) =>
         /\ loc[p].conv.conversationId[1] = "sentinel" => loc'[p].sent = NoId
         /\ loc[p].conv.conversationId \in issued =>
              loc'[p].sent = loc[p].conv.conversationId
    ]_vars

\* C26: racing first turns on one conversation open one external session.
\* When a turn that found the conversation with its sentinel commits its
\* message pair, the conversation's stored session id is the id of the
\* session in which that pair was exchanged with the external service.
C26_PairsUnderStoredSession ==
  [][\A p \in Procs :
       ( /\ pc[p] = "tx_upd" /\ loc[p].kind = "turn"
         /\ loc[p].conv.conversationId[1] = "sentinel"
         /\ loc[p].data.conversation_id \in ExtIds
         /\ pc'[p] = "idle" /\ resp'.status = 200 ) =>
         \A c \in ConvByPk(convs', loc[p].conv.id) :
           c.conversationId = loc[p].data.conversation_id
    ]_vars

\* C27: a conversation of the store is never served through the anonymous
\* path.  When the lookup of a by-id append or listing ends while a
\* conversation row matches the request's key, the request goes on to
\* authentication and the ownership check or is refused: it neither calls
\* the external service as a public conversation nor is answered with the
\* public empty listing, also when the lookup itself fails.
C27_StoredNeverServedAnonymously ==
  [][\A p \in Procs :
       ( /\ pc[p] = "id_lookup" /\ pc'[p] # "id_lookup"
         /\ GetConversationById(convs, loc[p].ext) # {} ) =>
         /\ pc'[p] # "anon_dify"
         /\ ~(resp'.status = 200 /\ resp'.body = "public")
    ]_vars

\* C28: the by-id routes act on the conversation the lookup resolved,
\* whichever of its two keys the request named it by.  A listing that
\* passed the ownership check returns the messages of that conversation,
\* and an append that passed it stages its rows in that conversation and,
\* while the conversation is stored, is not refused for a missing parent
\* row.
C28_ByIdActsOnResolvedConversation ==
  [][\A p \in Procs :
       /\ ( /\ pc[p] = "list_read" /\ loc[p].kind = "listing"
            /\ pc'[p] = "idle" /\ resp'.status = 200 ) =>
            Rows(resp'.list) = MsgsOf(msgs, loc[p].conv.id)
       /\ ( /\ pc[p] = "tx_ins" /\ loc[p].kind = "byid"
            /\ ConvByPk(convs, loc[p].conv.id) # {} ) =>
            /\ resp'.err # "P2003"
            /\ \A m \in Rows(loc'[p].tx) : m.conversationId = loc[p].conv.id
    ]_vars

\* C29: addMessage is all or nothing.  When a single append ends with an
\* error at the message insert or at the timestamp update that follows it,
\* no message row of that call is stored.
C29_FailedAddMessageLeavesNoRow ==
  [][\A p \in Procs :
       ( /\ loc[p].kind = "single" /\ pc[p] \in {"msg_create", "msg_touch"}
         /\ pc'[p] = "idle" /\ resp'.status # 201 ) =>
         \A m \in msgs' : m.id # <<"msg", loc[p].n, "", 1>>
    ]_vars

\* C30: racing deletes of one message resolve to one success and the merged
\* refusal.  A delete request whose ownership lookup found the message ends,
\* unless the store connection fails, with the success response or with the
\* 404 "Message not found or unauthorized", never with an internal error.
C30_RacingDeletesNeverInternalError ==
  [][\A p \in Procs :
       ( /\ loc[p].kind = "delete" /\ pc[p] \in {"del_delete", "del_touch"}
         /\ pc'[p] = "idle" /\ resp'.err # "P1017" ) =>
         resp'.status \in {200, 404}
    ]_vars

====
